---- MODULE Spec2Model ----
(***************************************************************************)
(* The realtime hubs of poltergeist: BaseHub (rooms, shutdown/done), the   *)
(* WebSocket hub and connection (WSHub, WSConn) and the SSE hub and writer *)
(* (SSEHub, SSEWriter).  One hub of one kind is modelled; kind is fixed in *)
(* the initial state.  Goroutines are processes: the dispatch loop (Run),  *)
(* one request handler per connection, one write pump per WebSocket        *)
(* connection, the goroutines spawned by the broadcast paths, and the      *)
(* callers of the public API.  An unrecovered Go panic stops the process.  *)
(***************************************************************************)
EXTENDS Integers, Sequences, FiniteSets, TLC

\* ------------------------------------------------------------------ bounds
NumConns == 2            \* connections that may be accepted
NumRooms == 2            \* room names in use
NumMsgs == 2             \* payloads the callers may submit
MaxClock == 2            \* clock readings time.Now() may return
NumCallers == 2          \* callers of Shutdown
DefaultBufferSize == 1   \* capacity of conn.send and of hub.broadcast (256 in the source)
MaxData == 2             \* symbols in the payload of an SSE event

Conns == 1..NumConns
Rooms == 1..NumRooms
IDs == 1..MaxClock
Callers == 1..NumCallers

VARIABLES
  kind,        \* "ws" (WSHub/WSConn) or "sse" (SSEHub/SSEWriter)
  now,         \* the clock generateConnID reads
  conn,        \* per connection: id, closed, closes, send (queue), wire (frames written),
               \* emits (EventWSDisconnect notifications emitted by its read pump)
  peer,        \* per connection: "up", "gone" (remote end disconnected: I/O fails) or
               \* "stalled" (remote end unresponsive: the transport takes no write)
  pc,          \* per connection: position of its request handler
  pump,        \* per connection: position of its writePump goroutine
  connections, \* WSHub.connections / SSEHub.clients (the registry)
  connIndex,   \* WSHub.connIndex / SSEHub.clientIndex: id -> connection
  rooms,       \* BaseHub.rooms: room -> set of ids (absent rooms are not in the domain)
  running,     \* BaseHub.running
  shutdown,    \* BaseHub.shutdown channel is closed
  done,        \* BaseHub.done channel is closed
  hubPc,       \* Run: "idle" (not started), "loop" (in its select), "broadcasting" and
               \* "closing" (blocked in a write of broadcastToAll, of closeAllClients),
               \* "exited"
  broadcast,   \* buffer of the hub.broadcast channel
  closeAsync,  \* connections with a pending `go conn.Close()` goroutine
  unregAsync,  \* connections with a pending `go func(){ h.unregister <- c }` goroutine
  sd,          \* per Shutdown caller: "idle", "wait" (in its select), "nil", "timeout"
  ret,         \* result of the latest direct Send call: "none", "ok", "err"
  nextMsg,     \* number of the next payload the callers submit
  drv,         \* position of the sequential caller of the register/broadcast scenario
  joined,      \* history: <<c, room>> with a JoinRoom(c, room) after the last
               \* LeaveRoom(c, room) and the last unregistration of c (by the
               \* unregister event or by the hub's shutdown)
  todo,        \* the connections the dispatch loop has still to serve in the
               \* broadcast or shutdown it is in, when a write has blocked it
  lk,          \* the locks (connMu / clientMu, BaseHub.mu, closeMu of each connection):
               \* per task, the lock operations its call has still to do and the
               \* locks it holds
  panic        \* "none", or the runtime panic that stopped the process

vars == <<kind, now, conn, peer, pc, pump, connections, connIndex, rooms, running,
          shutdown, done, hubPc, broadcast, closeAsync, unregAsync, sd, ret,
          nextMsg, drv, joined, todo, lk, panic>>

\* ---------------------------------------------------------------- payloads
\* A payload names the call that submitted it, so that deliveries can be told apart.
Msg(k, r, n) == [kind |-> k, room |-> r, n |-> n]
GoingAway == Msg("goingaway", 0, 0)   \* websocket.CloseGoingAway "server shutdown"
ShutdownEvent == Msg("shutdown", 0, 0) \* SSEEvent{Event: "shutdown"}

Count(s, m) == Cardinality({i \in 1..Len(s) : s[i] = m})

\* All orders in which a Go `range` over a map may visit the set S.
RECURSIVE Orders(_)
Orders(S) ==
  IF S = {} THEN {<<>>}
  ELSE UNION {{<<x>> \o o : o \in Orders(S \ {x})} : x \in S}

Alive == panic = "none"

EmptyMap == [x \in {} |-> 0]

\* ------------------------------------------------------------- connections
NewConn(t) ==
  [id |-> t, closed |-> FALSE, closes |-> 0, send |-> <<>>, wire |-> <<>>, emits |-> 0]
NoConn == NewConn(0)

generateConnID(t) == t

\* The transport accepts a write: not closed by this side, remote end still there.
Writable(cs, p) == ~cs.closed /\ p = "up"

\* Close without its `if c.closed { return nil }`.
CloseUnguarded(cs) == [cs EXCEPT !.closed = TRUE, !.closes = @ + 1]

\* WSConn.Close: under closeMu; close(c.send) and c.conn.Close() run once.
Close(cs) ==
  IF cs.closed THEN cs
  ELSE [cs EXCEPT !.closed = TRUE, !.closes = @ + 1]

\* A deferred function of readPump that emits the disconnect notification only
\* when it is the one to close the connection.
readPumpExitQuiet(cs) ==
  IF cs.closed THEN cs ELSE Close([cs EXCEPT !.emits = @ + 1])

\* The deferred function of WSConn.readPump: emit EventWSDisconnect to the pipeline,
\* then Close.
readPumpExit(cs) == Close([cs EXCEPT !.emits = @ + 1])

\* A deferred function of writePump that stops the ticker and leaves the connection open.
writePumpExitOpen(cs) == cs

\* The deferred function of WSConn.writePump: ticker.Stop(), then Close.
writePumpExit(cs) == Close(cs)

\* An SSEWriter.Close without its `if s.closed { return }`: every call emits.
SSECloseEmitAlways(cs) == [cs EXCEPT !.closed = TRUE, !.closes = @ + 1]

\* SSEWriter.Close: under closeMu; sets closed and emits the disconnect event once.
SSEClose(cs) ==
  IF cs.closed THEN cs
  ELSE [cs EXCEPT !.closed = TRUE, !.closes = @ + 1]

CloseOf(k, cs) == IF k = "ws" THEN Close(cs) ELSE SSEClose(cs)

\* WSConn.Send: [connection after, error?]
Send(cs, m) ==
  IF cs.closed THEN [cs |-> cs, err |-> TRUE]
  ELSE IF Len(cs.send) < DefaultBufferSize
       THEN [cs |-> [cs EXCEPT !.send = Append(@, m)], err |-> FALSE]
       ELSE [cs |-> cs, err |-> TRUE]

\* A Send whose frame reaches the client ahead of the frames written before it.
SSESendAhead(cs, p, m) ==
  IF cs.closed THEN [cs |-> cs, err |-> TRUE]
  ELSE IF p = "up"
       THEN [cs |-> [cs EXCEPT !.wire = <<m>> \o @], err |-> FALSE]
       ELSE [cs |-> cs, err |-> TRUE]

\* SSEWriter.Send: writes the frame to the response writer synchronously.
SSESend(cs, p, m) ==
  IF cs.closed THEN [cs |-> cs, err |-> TRUE]
  ELSE IF p = "up"
       THEN [cs |-> [cs EXCEPT !.wire = Append(@, m)], err |-> FALSE]
       ELSE [cs |-> cs, err |-> TRUE]

\* ------------------------------------------------------------ SSE framing
\* The response stream is a sequence of symbols: field prefixes, values, and NL for
\* the line feed.  A payload is a sequence of symbols that may hold line feeds.
NL == "\n"
DataSyms == {"hi", NL}

RECURSIVE SeqsUpTo(_, _)
SeqsUpTo(S, n) ==
  IF n = 0 THEN {<<>>}
  ELSE LET P == SeqsUpTo(S, n - 1)
       IN P \cup {Append(q, x) : q \in {r \in P : Len(r) = n - 1}, x \in S}

\* SSEEvent{Event, ID, Retry, Data}; Data is a string, a []byte or another value
\* (here a list of strings).
SSEEvents ==
  [Event : {"", "welcome"}, ID : {"", "7"}, Retry : -1..1,
   Data : [t : {"string", "bytes", "list"}, v : SeqsUpTo(DataSyms, MaxData)]]

\* json.Marshal of a list of strings: quoted elements, a line feed escaped as \n.
jsonQuote(x) == IF x = NL THEN "\"\\n\"" ELSE "\"hi\""

RECURSIVE jsonElems(_)
jsonElems(v) ==
  IF v = <<>> THEN <<>>
  ELSE IF Len(v) = 1 THEN <<jsonQuote(v[1])>>
  ELSE <<jsonQuote(v[1]), ",">> \o jsonElems(Tail(v))

jsonMarshal(v) == <<"[">> \o jsonElems(v) \o <<"]">>

\* SSEWriter.serializeData: strings and bytes verbatim, anything else as JSON.
serializeData(d) == IF d.t \in {"string", "bytes"} THEN d.v ELSE jsonMarshal(d.v)

\* The bytes SSEWriter.Send writes for an event.
Frame(e) ==
  (IF e.Event # "" THEN <<"event: ", e.Event, NL>> ELSE <<>>)
  \o (IF e.ID # "" THEN <<"id: ", e.ID, NL>> ELSE <<>>)
  \o (IF e.Retry > 0 THEN <<"retry: ", ToString(e.Retry), NL>> ELSE <<>>)
  \o <<"data: ">> \o serializeData(e.Data) \o <<NL, NL>>

\* SSEWriter.Send without its `if s.closed` check.
SSESendEventUnchecked(cs, p, e) ==
  IF p = "up"
  THEN [cs |-> [cs EXCEPT !.wire = @ \o Frame(e)], err |-> FALSE]
  ELSE [cs |-> cs, err |-> TRUE]

\* SSEWriter.Send with the bytes it writes: [writer after, error?]
SSESendEvent(cs, p, e) ==
  IF cs.closed THEN [cs |-> cs, err |-> TRUE]
  ELSE IF p = "up"
       THEN [cs |-> [cs EXCEPT !.wire = @ \o Frame(e)], err |-> FALSE]
       ELSE [cs |-> cs, err |-> TRUE]

\* SSEWriter.SendComment: [writer after, error?]
SSESendComment(cs, p, comment) ==
  IF cs.closed THEN [cs |-> cs, err |-> TRUE]
  ELSE IF p = "up"
       THEN [cs |-> [cs EXCEPT !.wire = @ \o <<": ">> \o comment \o <<NL, NL>>],
             err |-> FALSE]
       ELSE [cs |-> cs, err |-> TRUE]

\* A write to the transport that neither completes nor fails.  SSEWriter.Send writes
\* to the response writer with no deadline (SSEConfig.WriteTimeout is never applied).
\* A WebSocket transport takes no write once its buffers are full of frames the write
\* pump wrote, each under SetWriteDeadline: that deadline is still in force for the
\* close frame closeAllConnections writes, so its write fails and does not block.
BlocksWrite(k, cs, p) == k = "sse" /\ ~cs.closed /\ p = "stalled"

\* A delivery loop gets through the connections of order up to the first blocking write.
RECURSIVE Unblocked(_, _, _, _)
Unblocked(k, cs, pr, order) ==
  IF order = <<>> \/ BlocksWrite(k, cs[Head(order)], pr[Head(order)]) THEN <<>>
  ELSE <<Head(order)>> \o Unblocked(k, cs, pr, Tail(order))

Range(q) == {q[i] : i \in 1..Len(q)}

\* What the hub has handed to a connection: frames written and frames still queued.
Inbox(cs) == cs.wire \o cs.send

\* -------------------------------------------------------------- room index
\* An addToRoom that takes a member out again when it is added a second time.
addToRoomToggle(rm, clientID, room) ==
  IF room \in DOMAIN rm
  THEN IF clientID \in rm[room]
       THEN [rm EXCEPT ![room] = @ \ {clientID}]
       ELSE [rm EXCEPT ![room] = @ \cup {clientID}]
  ELSE rm @@ (room :> {clientID})

\* BaseHub.addToRoom: the room's set is created when absent.
addToRoom(rm, clientID, room) ==
  IF room \in DOMAIN rm
  THEN [rm EXCEPT ![room] = @ \cup {clientID}]
  ELSE rm @@ (room :> {clientID})

\* A removeFromRoom that leaves the emptied set in the index.
removeFromRoomKeepEmpty(rm, clientID, room) ==
  IF room \in DOMAIN rm THEN [rm EXCEPT ![room] = @ \ {clientID}] ELSE rm

\* BaseHub.removeFromRoom: the room entry is deleted with its last member.
removeFromRoom(rm, clientID, room) ==
  IF room \in DOMAIN rm
  THEN IF rm[room] \ {clientID} = {}
       THEN [r \in DOMAIN rm \ {room} |-> rm[r]]
       ELSE [rm EXCEPT ![room] = @ \ {clientID}]
  ELSE rm

\* BaseHub.removeFromAllRooms: every room loses the id; emptied rooms are deleted.
removeFromAllRooms(rm, clientID) ==
  [r \in {q \in DOMAIN rm : rm[q] \ {clientID} # {}} |-> rm[r] \ {clientID}]

\* getRoomClientIDs that does not look at the room asked for.
getRoomClientIDsAnyRoom(rm, room) == UNION {rm[r] : r \in DOMAIN rm}

\* BaseHub.getRoomClientIDs: the (copied) member ids of the room
getRoomClientIDs(rm, room) == IF room \in DOMAIN rm THEN rm[room] ELSE {}

roomCount(rm, room) == IF room \in DOMAIN rm THEN Cardinality(rm[room]) ELSE 0

\* ------------------------------------------------------- registry helpers
\* delete(m, k) on a Go map
Delete(m, keys) == [k \in DOMAIN m \ keys |-> m[k]]

\* WSHub.registerConn / SSEHub.registerClient
registerConn(reg, idx, c, id) ==
  [connections |-> reg \cup {c},
   connIndex |-> [i \in DOMAIN idx \cup {id} |-> IF i = id THEN c ELSE idx[i]]]

\* An unregistration that leaves the registry, the index and the rooms as they are.
unregisterConnKeep(reg, idx, rm, cs, c) ==
  [connections |-> reg, connIndex |-> idx, rooms |-> rm, conn |-> cs]

\* WSHub.unregisterConn: the connection itself is left as it is.
unregisterConn(reg, idx, rm, cs, c) ==
  IF c \in reg
  THEN [connections |-> reg \ {c}, connIndex |-> Delete(idx, {cs[c].id}),
        rooms |-> removeFromAllRooms(rm, cs[c].id), conn |-> cs]
  ELSE [connections |-> reg, connIndex |-> idx, rooms |-> rm, conn |-> cs]

\* SSEHub.unregisterClient: a registered client is also closed.
unregisterClient(reg, idx, rm, cs, c) ==
  IF c \in reg
  THEN [connections |-> reg \ {c}, connIndex |-> Delete(idx, {cs[c].id}),
        rooms |-> removeFromAllRooms(rm, cs[c].id),
        conn |-> [cs EXCEPT ![c] = SSEClose(@)]]
  ELSE [connections |-> reg, connIndex |-> idx, rooms |-> rm, conn |-> cs]

\* The broadcast select whose default case drops the payload and does nothing else.
chanSendDrop(cs, m) ==
  IF cs.closed THEN [cs |-> cs, res |-> "panic"]
  ELSE IF Len(cs.send) < DefaultBufferSize
       THEN [cs |-> [cs EXCEPT !.send = Append(@, m)], res |-> "sent"]
       ELSE [cs |-> cs, res |-> "sent"]

\* select { case conn.send <- message: default: } of the WebSocket broadcast paths:
\* the channel is used without closeMu; a send on a closed channel panics.
chanSend(cs, m) ==
  IF cs.closed THEN [cs |-> cs, res |-> "panic"]
  ELSE IF Len(cs.send) < DefaultBufferSize
       THEN [cs |-> [cs EXCEPT !.send = Append(@, m)], res |-> "sent"]
       ELSE [cs |-> cs, res |-> "full"]

\* The delivery loop of WSHub.broadcastToAll and WSHub.BroadcastToRoom over the
\* connections in the order the range visits them; a full queue spawns
\* `go conn.Close()`, a panic ends the loop.
RECURSIVE wsDeliver(_, _, _)
wsDeliver(cs, order, m) ==
  IF order = <<>> THEN [conn |-> cs, failed |-> {}, panic |-> FALSE]
  ELSE LET c == Head(order)
           s == chanSend(cs[c], m)
       IN IF s.res = "panic" THEN [conn |-> cs, failed |-> {}, panic |-> TRUE]
          ELSE LET r == wsDeliver([cs EXCEPT ![c] = s.cs], Tail(order), m)
               IN IF s.res = "full" THEN [r EXCEPT !.failed = @ \cup {c}] ELSE r

\* The delivery loop of SSEHub.broadcastToAll and SSEHub.BroadcastToRoom; a failed
\* Send spawns a goroutine that submits the client for unregistration.
RECURSIVE sseDeliver(_, _, _, _)
sseDeliver(cs, pr, order, m) ==
  IF order = <<>> THEN [conn |-> cs, failed |-> {}, panic |-> FALSE]
  ELSE LET c == Head(order)
           s == SSESend(cs[c], pr[c], m)
           r == sseDeliver([cs EXCEPT ![c] = s.cs], pr, Tail(order), m)
       IN IF s.err THEN [r EXCEPT !.failed = @ \cup {c}] ELSE r

\* A broadcast path that takes the connections it could not deliver to out of the
\* registry itself.
registryPruned(reg, failed) == reg \ failed

\* The registry after a delivery loop: for a connection it could not deliver to, a
\* broadcast path only spawns a goroutine (`go conn.Close()`, or one that submits
\* the unregistration); it holds connMu.RLock and leaves the registry as it is.
registryAfterDelivery(reg, failed) == reg

Deliver(k, cs, pr, order, m) ==
  IF k = "ws" THEN wsDeliver(cs, order, m) ELSE sseDeliver(cs, pr, order, m)

\* A broadcastToAll that ranges over every constructed connection, registered or not.
broadcastToEveryConn(k, cs, pr, order, m) ==
  Deliver(k, cs, pr, CHOOSE o \in Orders({c \in Conns : cs[c].id # 0}) : TRUE, m)

\* WSHub.broadcastToAll / SSEHub.broadcastToAll over the registry
broadcastToAll(k, cs, pr, order, m) == Deliver(k, cs, pr, order, m)

\* The connections a room broadcast resolves to: the ids of the room, in the order
\* visited, looked up in the identifier index (ids missing from it are skipped).
RECURSIVE Resolve(_, _)
Resolve(idx, ids) ==
  IF ids = <<>> THEN <<>>
  ELSE IF Head(ids) \in DOMAIN idx
       THEN <<idx[Head(ids)]>> \o Resolve(idx, Tail(ids))
       ELSE Resolve(idx, Tail(ids))

\* A close-all that writes the final notification and leaves the connection open.
closeOneNotifyOnly(k, cs, p) ==
  IF k = "ws"
  THEN IF Writable(cs, p) THEN [cs EXCEPT !.wire = Append(@, GoingAway)] ELSE cs
  ELSE SSESend(cs, p, ShutdownEvent).cs

\* WSHub.closeAllConnections / SSEHub.closeAllClients for one connection: the final
\* notification is written to the transport directly (its error is ignored), then Close.
closeOne(k, cs, p) ==
  IF k = "ws"
  THEN Close(IF Writable(cs, p) THEN [cs EXCEPT !.wire = Append(@, GoingAway)] ELSE cs)
  ELSE SSEClose(SSESend(cs, p, ShutdownEvent).cs)
\* ------------------------------------------------------------------- locks
\* The tasks that take locks: 0 is the dispatch loop, the others are callers.
Tasks == 0..NumCallers

\* One lock operation of a call.  m names the lock ("connMu": WSHub.connMu /
\* SSEHub.clientMu, "mu": BaseHub.mu, "closeMu": the closeMu of connection c);
\* "Write" is the write to the transport of c that the call makes at that point.
Op(op, m, c) == [op |-> op, m |-> m, c |-> c]

\* No task is in a call and no lock is held.
NoLocks == [script |-> [t \in Tasks |-> <<>>], held |-> [t \in Tasks |-> {}]]

\* WSConn.Send takes closeMu around the non-blocking queue send; SSEWriter.Send
\* takes it around the writes to the response writer and the flush.
SendLocks(k, c) ==
  IF k = "ws"
  THEN <<Op("Lock", "closeMu", c), Op("Unlock", "closeMu", c)>>
  ELSE <<Op("Lock", "closeMu", c), Op("Write", "conn", c), Op("Unlock", "closeMu", c)>>

\* WSConn.Close / SSEWriter.Close
CloseLocks(c) == <<Op("Lock", "closeMu", c), Op("Unlock", "closeMu", c)>>

\* registerConn / registerClient
registerLocks == <<Op("Lock", "connMu", 0), Op("Unlock", "connMu", 0)>>

\* unregisterConn / unregisterClient of a registered connection: under connMu,
\* removeFromAllRooms takes mu; unregisterClient then closes the client.
unregisterLocks(k, c) ==
  <<Op("Lock", "connMu", 0), Op("Lock", "mu", 0), Op("Unlock", "mu", 0)>>
  \o (IF k = "sse" THEN CloseLocks(c) ELSE <<>>)
  \o <<Op("Unlock", "connMu", 0)>>

\* The delivery to one connection in the broadcast loops: the WebSocket paths use
\* the queue without a lock, the SSE paths call client.Send.
deliverLocks(k, c) == IF k = "ws" THEN <<>> ELSE SendLocks(k, c)

\* ... to the connections of order, one after the other.
RECURSIVE deliverAllLocks(_, _)
deliverAllLocks(k, order) ==
  IF order = <<>> THEN <<>>
  ELSE deliverLocks(k, Head(order)) \o deliverAllLocks(k, Tail(order))

\* broadcastToAll over the registry in the order the range visits it
broadcastLocks(k, order) ==
  <<Op("RLock", "connMu", 0)>>
  \o deliverAllLocks(k, order)
  \o <<Op("RUnlock", "connMu", 0)>>

\* The loop of closeAllConnections / closeAllClients: the final notification
\* (written to the WebSocket transport directly, sent with client.Send to an SSE
\* client), then Close.
RECURSIVE closeEachLocks(_, _)
closeEachLocks(k, order) ==
  IF order = <<>> THEN <<>>
  ELSE (IF k = "ws" THEN <<Op("Write", "conn", Head(order))>>
                    ELSE SendLocks(k, Head(order)))
       \o CloseLocks(Head(order)) \o closeEachLocks(k, Tail(order))

\* closeAllConnections / closeAllClients, under connMu
closeAllLocks(k, order) ==
  <<Op("Lock", "connMu", 0)>> \o closeEachLocks(k, order) \o <<Op("Unlock", "connMu", 0)>>

\* BroadcastToRoom: connMu.RLock, getRoomClientIDs under mu.RLock, the deliveries.
roomBroadcastLocks(k, order) ==
  <<Op("RLock", "connMu", 0), Op("RLock", "mu", 0), Op("RUnlock", "mu", 0)>>
  \o deliverAllLocks(k, order)
  \o <<Op("RUnlock", "connMu", 0)>>

\* addToRoom / removeFromRoom (JoinRoom, LeaveRoom)
roomWriteLocks == <<Op("Lock", "mu", 0), Op("Unlock", "mu", 0)>>

\* roomCount (RoomCount)
roomCountLocks == <<Op("RLock", "mu", 0), Op("RUnlock", "mu", 0)>>

\* ConnectionCount / ClientCount
connectionCountLocks == <<Op("RLock", "connMu", 0), Op("RUnlock", "connMu", 0)>>



\* ... for the connections reg the range has visited.
closeAllConnections(k, reg, idx, cs, pr) ==
  [connections |-> {},
   connIndex |-> Delete(idx, {cs[c].id : c \in reg}),
   conn |-> [c \in Conns |-> IF c \in reg THEN closeOne(k, cs[c], pr[c]) ELSE cs[c]]]

Init ==
  /\ kind \in {"ws", "sse"}
  /\ now = 1
  /\ conn = [c \in Conns |-> NoConn]
  /\ peer = [c \in Conns |-> "up"]
  /\ pc = [c \in Conns |-> "idle"]
  /\ pump = [c \in Conns |-> "off"]
  /\ connections = {}
  /\ connIndex = EmptyMap
  /\ rooms = EmptyMap
  /\ running = FALSE
  /\ shutdown = FALSE
  /\ done = FALSE
  /\ hubPc = "idle"
  /\ broadcast = <<>>
  /\ closeAsync = {}
  /\ unregAsync = {}
  /\ sd = [k \in Callers |-> "idle"]
  /\ ret = "none"
  /\ nextMsg = 1
  /\ drv = "off"
  /\ joined = {}
  /\ todo = <<>>
  /\ lk = NoLocks
  /\ panic = "none"

\* An unrecovered panic ends the process: every goroutine stops and the state of
\* the hub and of its connections is gone; only the reason is kept, and whether the
\* done channel was closed on the way: a panic in the Run goroutine runs Run's
\* deferred markDone before the process ends.
CrashIn(reason, deferredDone) ==
  /\ panic' = reason
  /\ kind' = kind
  /\ now' = 1
  /\ conn' = [c \in Conns |-> NoConn]
  /\ peer' = [c \in Conns |-> "up"]
  /\ pc' = [c \in Conns |-> "idle"]
  /\ pump' = [c \in Conns |-> "off"]
  /\ connections' = {}
  /\ connIndex' = EmptyMap
  /\ rooms' = EmptyMap
  /\ running' = FALSE
  /\ shutdown' = FALSE
  /\ done' = deferredDone
  /\ hubPc' = "idle"
  /\ broadcast' = <<>>
  /\ closeAsync' = {}
  /\ unregAsync' = {}
  /\ sd' = [k \in Callers |-> "idle"]
  /\ ret' = "none"
  /\ nextMsg' = 1
  /\ drv' = "off"
  /\ joined' = {}
  /\ todo' = <<>>
  /\ lk' = NoLocks

\* A panic in a goroutine other than Run.
Crash(reason) == CrashIn(reason, FALSE)

\* ------------------------------------------------------- request handlers
\* WebSocketWithHub / SSEWithHub up to `hub.register <- conn`: the connection is
\* constructed (its id is the clock reading) and offered on the register channel.
Accept(c) ==
  /\ Alive /\ pc[c] = "idle"
  /\ \E t \in now..MaxClock :
       /\ now' = t
       /\ conn' = [conn EXCEPT ![c] = NewConn(generateConnID(t))]
  /\ pc' = [pc EXCEPT ![c] = "register"]
  /\ UNCHANGED <<kind, peer, pump, connections, connIndex, rooms, running, shutdown,
                 done, hubPc, broadcast, closeAsync, unregAsync, sd, ret, nextMsg, drv,
                 panic, joined, todo, lk>>

\* The remote end goes away: reads and writes on the transport fail from now on,
\* and the request context of an SSE request is cancelled.
PeerGone(c) ==
  /\ Alive /\ pc[c] \in {"register", "serve"} /\ peer[c] # "gone"
  /\ peer' = [peer EXCEPT ![c] = "gone"]
  /\ UNCHANGED <<kind, now, conn, pc, pump, connections, connIndex, rooms, running,
                 shutdown, done, hubPc, broadcast, closeAsync, unregAsync, sd, ret,
                 nextMsg, drv, panic, joined, todo, lk>>

\* The remote end stops responding: it reads nothing, so the transport takes no
\* further write, and it sends nothing (no pong: the read deadline will pass).
PeerStall(c) ==
  /\ Alive /\ pc[c] \in {"register", "serve"} /\ peer[c] = "up"
  /\ peer' = [peer EXCEPT ![c] = "stalled"]
  /\ UNCHANGED <<kind, now, conn, pc, pump, connections, connIndex, rooms, running,
                 shutdown, done, hubPc, broadcast, closeAsync, unregAsync, sd, ret,
                 nextMsg, drv, panic, joined, todo, lk>>

\* WSConn.readPump ends (read error: remote end gone, transport closed, or the read
\* deadline passed with the remote end unresponsive): its deferred function emits
\* the disconnect notification and closes the connection, then the handler's deferred
\* `hub.unregister <- wsConn` offers the connection on the unregister channel.
readPump(c) ==
  /\ Alive /\ kind = "ws" /\ pc[c] = "serve"
  /\ peer[c] # "up" \/ conn[c].closed
  /\ conn' = [conn EXCEPT ![c] = readPumpExit(@)]
  /\ pc' = [pc EXCEPT ![c] = "unregister"]
  /\ UNCHANGED <<kind, now, peer, pump, connections, connIndex, rooms, running,
                 shutdown, done, hubPc, broadcast, closeAsync, unregAsync, sd, ret,
                 nextMsg, drv, panic, joined, todo, lk>>

\* SSEWithHub: the request context is done; the watcher goroutine offers the
\* writer on the unregister channel.
CtxDone(c) ==
  /\ Alive /\ kind = "sse" /\ pc[c] = "serve" /\ peer[c] = "gone"
  /\ pc' = [pc EXCEPT ![c] = "unregister"]
  /\ UNCHANGED <<kind, now, conn, peer, pump, connections, connIndex, rooms, running,
                 shutdown, done, hubPc, broadcast, closeAsync, unregAsync, sd, ret,
                 nextMsg, drv, panic, joined, todo, lk>>

\* WSConn.writePump, the `<-c.send` case: a received payload is written to the
\* transport; a failed write, or a closed and drained queue, ends the pump, whose
\* deferred function closes the connection.
writePump(c) ==
  /\ Alive /\ kind = "ws" /\ pump[c] = "run"
  /\ conn[c].send # <<>> \/ conn[c].closed
  /\ IF conn[c].send # <<>>
     THEN LET m == Head(conn[c].send)
              cs == [conn[c] EXCEPT !.send = Tail(@)]
          IN IF Writable(cs, peer[c])
             THEN /\ conn' = [conn EXCEPT ![c] = [cs EXCEPT !.wire = Append(@, m)]]
                  /\ pump' = pump
             ELSE /\ conn' = [conn EXCEPT ![c] = writePumpExit(cs)]
                  /\ pump' = [pump EXCEPT ![c] = "exit"]
     ELSE /\ conn' = [conn EXCEPT ![c] = writePumpExit(@)]
          /\ pump' = [pump EXCEPT ![c] = "exit"]
  /\ UNCHANGED <<kind, now, peer, pc, connections, connIndex, rooms, running, shutdown,
                 done, hubPc, broadcast, closeAsync, unregAsync, sd, ret, nextMsg, drv,
                 panic, joined, todo, lk>>

\* WSConn.writePump, the ticker case: a ping that cannot be written ends the pump.
writePumpPing(c) ==
  /\ Alive /\ kind = "ws" /\ pump[c] = "run"
  /\ ~Writable(conn[c], peer[c])
  /\ conn' = [conn EXCEPT ![c] = writePumpExit(@)]
  /\ pump' = [pump EXCEPT ![c] = "exit"]
  /\ UNCHANGED <<kind, now, peer, pc, connections, connIndex, rooms, running, shutdown,
                 done, hubPc, broadcast, closeAsync, unregAsync, sd, ret, nextMsg, drv,
                 panic, joined, todo, lk>>

\* The goroutine of `go conn.Close()` runs.
AsyncClose(c) ==
  /\ Alive /\ c \in closeAsync
  /\ conn' = [conn EXCEPT ![c] = Close(@)]
  /\ closeAsync' = closeAsync \ {c}
  /\ UNCHANGED <<kind, now, peer, pc, pump, connections, connIndex, rooms, running,
                 shutdown, done, hubPc, broadcast, unregAsync, sd, ret, nextMsg, drv,
                 panic, joined, todo, lk>>

\* ------------------------------------------------------------- dispatch loop
\* WSHub.Run / SSEHub.Run starts: setRunning(true).
Run ==
  /\ Alive /\ hubPc = "idle"
  /\ hubPc' = "loop"
  /\ running' = TRUE
  /\ UNCHANGED <<kind, now, conn, peer, pc, pump, connections, connIndex, rooms,
                 shutdown, done, broadcast, closeAsync, unregAsync, sd, ret, nextMsg,
                 drv, panic, joined, todo, lk>>

\* case conn := <-h.register: the rendezvous with the handler; the handler goes on
\* to start the write pump (WebSocket) and to serve the connection.
RunRegister(c) ==
  /\ Alive /\ hubPc = "loop" /\ pc[c] = "register"
  /\ LET r == registerConn(connections, connIndex, c, conn[c].id)
     IN /\ connections' = r.connections
        /\ connIndex' = r.connIndex
  /\ pc' = [pc EXCEPT ![c] = "serve"]
  /\ pump' = [pump EXCEPT ![c] = IF kind = "ws" THEN "run" ELSE @]
  /\ UNCHANGED <<kind, now, conn, peer, rooms, running, shutdown, done, hubPc,
                 broadcast, closeAsync, unregAsync, sd, ret, nextMsg, drv, panic,
                 joined, todo, lk>>

Unregister(c) ==
  IF kind = "ws"
  THEN unregisterConn(connections, connIndex, rooms, conn, c)
  ELSE unregisterClient(connections, connIndex, rooms, conn, c)

\* case conn := <-h.unregister, offered by the connection's handler, which returns.
RunUnregister(c) ==
  /\ Alive /\ hubPc = "loop" /\ pc[c] = "unregister"
  /\ LET r == Unregister(c)
     IN /\ connections' = r.connections
        /\ connIndex' = r.connIndex
        /\ rooms' = r.rooms
        /\ conn' = r.conn
  /\ pc' = [pc EXCEPT ![c] = "done"]
  /\ UNCHANGED <<kind, now, peer, pump, running, shutdown, done, hubPc, broadcast,
                 closeAsync, unregAsync, sd, ret, nextMsg, drv, panic, todo, lk>>
  /\ joined' = IF c \in connections THEN {j \in joined : j[1] # c} ELSE joined

\* case conn := <-h.unregister, offered by a goroutine a failed delivery spawned.
RunUnregisterAsync(c) ==
  /\ Alive /\ hubPc = "loop" /\ c \in unregAsync
  /\ LET r == Unregister(c)
     IN /\ connections' = r.connections
        /\ connIndex' = r.connIndex
        /\ rooms' = r.rooms
        /\ conn' = r.conn
  /\ unregAsync' = unregAsync \ {c}
  /\ UNCHANGED <<kind, now, peer, pc, pump, running, shutdown, done, hubPc, broadcast,
                 closeAsync, sd, ret, nextMsg, drv, panic, todo, lk>>
  /\ joined' = IF c \in connections THEN {j \in joined : j[1] # c} ELSE joined

\* case message := <-h.broadcast: broadcastToAll over the registry, in the order the
\* range visits it.  A write that blocks holds the loop inside broadcastToAll; it
\* goes on from there when the write has completed or failed.
RunBroadcast ==
  /\ Alive /\ broadcast # <<>>
  /\ \/ hubPc = "loop"
     \/ /\ hubPc = "broadcasting"
        /\ ~BlocksWrite(kind, conn[Head(todo)], peer[Head(todo)])
  /\ \E order \in (IF hubPc = "loop" THEN Orders(connections) ELSE {todo}) :
       LET go == Unblocked(kind, conn, peer, order)
           rest == SubSeq(order, Len(go) + 1, Len(order))
           r == broadcastToAll(kind, conn, peer, go, Head(broadcast))
       IN IF r.panic
          THEN CrashIn("send on closed channel", TRUE)
          ELSE /\ conn' = r.conn
               /\ closeAsync' = IF kind = "ws" THEN closeAsync \cup r.failed ELSE closeAsync
               /\ unregAsync' = IF kind = "sse" THEN unregAsync \cup r.failed ELSE unregAsync
               /\ connections' = registryAfterDelivery(connections, r.failed)
               /\ broadcast' = IF rest = <<>> THEN Tail(broadcast) ELSE broadcast
               /\ hubPc' = IF rest = <<>> THEN "loop" ELSE "broadcasting"
               /\ todo' = rest
               /\ UNCHANGED <<kind, now, peer, pc, pump, connIndex, rooms, running,
                              shutdown, done, sd, ret, nextMsg, drv, panic, joined, lk>>

\* case <-h.shutdownChan(): closeAllConnections / closeAllClients, return, and the
\* deferred markDone closes the done channel.  A write of the final notification
\* that blocks holds the loop inside closeAllClients.
RunShutdown ==
  /\ Alive
  /\ \/ hubPc = "loop" /\ shutdown
     \/ /\ hubPc = "closing"
        /\ ~BlocksWrite(kind, conn[Head(todo)], peer[Head(todo)])
  /\ \E order \in (IF hubPc = "loop" THEN Orders(connections) ELSE {todo}) :
       LET go == Unblocked(kind, conn, peer, order)
           rest == SubSeq(order, Len(go) + 1, Len(order))
           r == closeAllConnections(kind, Range(go), connIndex, conn, peer)
       IN /\ connections' = connections \ Range(go)
          /\ connIndex' = r.connIndex
          /\ conn' = r.conn
          /\ done' = (rest = <<>>)
          /\ hubPc' = IF rest = <<>> THEN "exited" ELSE "closing"
          /\ todo' = rest
          /\ joined' = {j \in joined : j[1] \notin Range(go)}
  /\ UNCHANGED <<kind, now, peer, pc, pump, rooms, running, shutdown, broadcast,
                 closeAsync, unregAsync, sd, ret, nextMsg, drv, panic, lk>>

\* ---------------------------------------------------------------- public API
\* WSHub.Broadcast / SSEHub.Broadcast: `h.broadcast <- message` (blocks while full).
Broadcast ==
  /\ Alive /\ nextMsg <= NumMsgs /\ Len(broadcast) < DefaultBufferSize
  /\ broadcast' = Append(broadcast, Msg("all", 0, nextMsg))
  /\ nextMsg' = nextMsg + 1
  /\ UNCHANGED <<kind, now, conn, peer, pc, pump, connections, connIndex, rooms,
                 running, shutdown, done, hubPc, closeAsync, unregAsync, sd, ret, drv,
                 panic, joined, todo, lk>>

\* WSHub.BroadcastToRoom / SSEHub.BroadcastToRoom, in the caller's goroutine.
BroadcastToRoom(room) ==
  /\ Alive /\ nextMsg <= NumMsgs
  /\ \E ids \in Orders(getRoomClientIDs(rooms, room)) :
       LET r == Deliver(kind, conn, peer, Resolve(connIndex, ids),
                        Msg("room", room, nextMsg))
       IN IF r.panic
          THEN Crash("send on closed channel")
          ELSE /\ conn' = r.conn
               /\ closeAsync' = IF kind = "ws" THEN closeAsync \cup r.failed ELSE closeAsync
               /\ unregAsync' = IF kind = "sse" THEN unregAsync \cup r.failed ELSE unregAsync
               /\ connections' = registryAfterDelivery(connections, r.failed)
               /\ nextMsg' = nextMsg + 1
               /\ UNCHANGED <<kind, now, peer, pc, pump, connIndex, rooms, running,
                              shutdown, done, hubPc, broadcast, sd, ret, drv, panic,
                              joined, todo, lk>>

\* WSHub.JoinRoom / SSEHub.JoinRoom for a constructed connection.
JoinRoom(c, room) ==
  /\ Alive /\ conn[c].id # 0
  /\ rooms' = addToRoom(rooms, conn[c].id, room)
  /\ UNCHANGED <<kind, now, conn, peer, pc, pump, connections, connIndex, running,
                 shutdown, done, hubPc, broadcast, closeAsync, unregAsync, sd, ret,
                 nextMsg, drv, panic, todo, lk>>
  /\ joined' = joined \cup {<<c, room>>}

\* WSHub.LeaveRoom / SSEHub.LeaveRoom
LeaveRoom(c, room) ==
  /\ Alive /\ conn[c].id # 0
  /\ rooms' = removeFromRoom(rooms, conn[c].id, room)
  /\ UNCHANGED <<kind, now, conn, peer, pc, pump, connections, connIndex, running,
                 shutdown, done, hubPc, broadcast, closeAsync, unregAsync, sd, ret,
                 nextMsg, drv, panic, todo, lk>>
  /\ joined' = joined \ {<<c, room>>}

\* A direct WSConn.Send / SSEWriter.Send by the application.
CallSend(c) ==
  /\ Alive /\ conn[c].id # 0 /\ nextMsg <= NumMsgs
  /\ LET m == Msg("direct", 0, nextMsg)
         r == IF kind = "ws" THEN Send(conn[c], m) ELSE SSESend(conn[c], peer[c], m)
     IN /\ conn' = [conn EXCEPT ![c] = r.cs]
        /\ ret' = IF r.err THEN "err" ELSE "ok"
  /\ nextMsg' = nextMsg + 1
  /\ UNCHANGED <<kind, now, peer, pc, pump, connections, connIndex, rooms, running,
                 shutdown, done, hubPc, broadcast, closeAsync, unregAsync, sd, drv,
                 panic, joined, todo, lk>>

\* A direct WSConn.Close / SSEWriter.Close by the application.
CallClose(c) ==
  /\ Alive /\ pc[c] = "serve"
  /\ conn' = [conn EXCEPT ![c] = CloseOf(kind, @)]
  /\ UNCHANGED <<kind, now, peer, pc, pump, connections, connIndex, rooms, running,
                 shutdown, done, hubPc, broadcast, closeAsync, unregAsync, sd, ret,
                 nextMsg, drv, panic, joined, todo, lk>>

\* A direct SSEWriter.Send of event e by the application.
SendEvent(c, e) ==
  /\ Alive /\ kind = "sse" /\ conn[c].id # 0 /\ nextMsg <= NumMsgs
  /\ LET r == SSESendEvent(conn[c], peer[c], e)
     IN /\ conn' = [conn EXCEPT ![c] = r.cs]
        /\ ret' = IF r.err THEN "err" ELSE "ok"
  /\ nextMsg' = nextMsg + 1
  /\ UNCHANGED <<kind, now, peer, pc, pump, connections, connIndex, rooms, running,
                 shutdown, done, hubPc, broadcast, closeAsync, unregAsync, sd, drv,
                 panic, joined, todo, lk>>

\* A direct SSEWriter.SendComment (keep-alive) by the application.
SendComment(c) ==
  /\ Alive /\ kind = "sse" /\ conn[c].id # 0 /\ nextMsg <= NumMsgs
  /\ LET r == SSESendComment(conn[c], peer[c], <<"keepalive">>)
     IN /\ conn' = [conn EXCEPT ![c] = r.cs]
        /\ ret' = IF r.err THEN "err" ELSE "ok"
  /\ nextMsg' = nextMsg + 1
  /\ UNCHANGED <<kind, now, peer, pc, pump, connections, connIndex, rooms, running,
                 shutdown, done, hubPc, broadcast, closeAsync, unregAsync, sd, drv,
                 panic, joined, todo, lk>>

\* BaseHub.Shutdown up to its select: setRunning(false), close(h.shutdown).  Closing
\* a closed channel panics.
Shutdown(k) ==
  /\ Alive /\ sd[k] = "idle"
  /\ IF shutdown
     THEN Crash("close of closed channel")
     ELSE /\ running' = FALSE
          /\ shutdown' = TRUE
          /\ sd' = [sd EXCEPT ![k] = "wait"]
          /\ UNCHANGED <<kind, now, conn, peer, pc, pump, connections, connIndex, rooms,
                         done, hubPc, broadcast, closeAsync, unregAsync, ret, nextMsg,
                         drv, panic, joined, todo, lk>>

\* BaseHub.Shutdown, case <-h.done: return nil.
ShutdownDone(k) ==
  /\ Alive /\ sd[k] = "wait" /\ done
  /\ sd' = [sd EXCEPT ![k] = "nil"]
  /\ UNCHANGED <<kind, now, conn, peer, pc, pump, connections, connIndex, rooms,
                 running, shutdown, done, hubPc, broadcast, closeAsync, unregAsync, ret,
                 nextMsg, drv, panic, joined, todo, lk>>

\* BaseHub.Shutdown, case <-ctx.Done(): the deadline of ctx has passed; return ctx.Err().
ShutdownTimeout(k) ==
  /\ Alive /\ sd[k] = "wait"
  /\ sd' = [sd EXCEPT ![k] = "timeout"]
  /\ UNCHANGED <<kind, now, conn, peer, pc, pump, connections, connIndex, rooms,
                 running, shutdown, done, hubPc, broadcast, closeAsync, unregAsync, ret,
                 nextMsg, drv, panic, joined, todo, lk>>

\* The hub in service: connections come and go, callers broadcast to all and send
\* and close directly.
Next ==
  \/ \E c \in Conns : Accept(c)
  \/ \E c \in Conns : PeerGone(c)
  \/ \E c \in Conns : readPump(c)
  \/ \E c \in Conns : CtxDone(c)
  \/ \E c \in Conns : writePump(c)
  \/ \E c \in Conns : writePumpPing(c)
  \/ \E c \in Conns : AsyncClose(c)
  \/ Run
  \/ \E c \in Conns : RunRegister(c)
  \/ \E c \in Conns : RunUnregister(c)
  \/ \E c \in Conns : RunUnregisterAsync(c)
  \/ RunBroadcast
  \/ Broadcast
  \/ \E c \in Conns : CallSend(c)
  \/ \E c \in Conns : CallClose(c)

Spec == Init /\ [][Next]_vars

\* The initial state with one payload left to submit.
InitOne ==
  /\ kind \in {"ws", "sse"}
  /\ now = 1
  /\ conn = [c \in Conns |-> NoConn]
  /\ peer = [c \in Conns |-> "up"]
  /\ pc = [c \in Conns |-> "idle"]
  /\ pump = [c \in Conns |-> "off"]
  /\ connections = {}
  /\ connIndex = EmptyMap
  /\ rooms = EmptyMap
  /\ running = FALSE
  /\ shutdown = FALSE
  /\ done = FALSE
  /\ hubPc = "idle"
  /\ broadcast = <<>>
  /\ closeAsync = {}
  /\ unregAsync = {}
  /\ sd = [k \in Callers |-> "idle"]
  /\ ret = "none"
  /\ nextMsg = NumMsgs
  /\ drv = "off"
  /\ joined = {}
  /\ todo = <<>>
  /\ lk = NoLocks
  /\ panic = "none"

\* The hub with rooms: connections come and go, join and leave rooms, and callers
\* broadcast to rooms.
NextRooms ==
  \/ \E c \in Conns : Accept(c)
  \/ \E c \in Conns : PeerGone(c)
  \/ \E c \in Conns : readPump(c)
  \/ \E c \in Conns : CtxDone(c)
  \/ \E c \in Conns : writePump(c)
  \/ \E c \in Conns : writePumpPing(c)
  \/ Run
  \/ \E c \in Conns : RunRegister(c)
  \/ \E c \in Conns : RunUnregister(c)
  \/ \E c \in Conns : RunUnregisterAsync(c)
  \/ \E r \in Rooms : BroadcastToRoom(r)
  \/ \E c \in Conns, r \in Rooms : JoinRoom(c, r)
  \/ \E c \in Conns, r \in Rooms : LeaveRoom(c, r)

SpecRooms == InitOne /\ [][NextRooms]_vars

\* The hub being shut down: connections come and go, callers broadcast to all and
\* request the shutdown.
NextDown ==
  \/ \E c \in Conns : Accept(c)
  \/ \E c \in Conns : PeerGone(c)
  \/ \E c \in Conns : readPump(c)
  \/ \E c \in Conns : CtxDone(c)
  \/ \E c \in Conns : writePump(c)
  \/ \E c \in Conns : writePumpPing(c)
  \/ Run
  \/ \E c \in Conns : RunRegister(c)
  \/ \E c \in Conns : RunUnregister(c)
  \/ \E c \in Conns : RunUnregisterAsync(c)
  \/ RunBroadcast
  \/ RunShutdown
  \/ Broadcast
  \/ \E k \in Callers : Shutdown(k)
  \/ \E k \in Callers : ShutdownDone(k)
  \/ \E k \in Callers : ShutdownTimeout(k)

SpecDown == InitOne /\ [][NextDown]_vars

\* The shutdown workload with the scheduling the Go runtime gives: a select whose
\* shutdown case is ready takes it sooner or later, runnable goroutines run, and a
\* Shutdown caller whose done case is ready returns.  The callers, the remote ends
\* and the deadlines are under no obligation.
FairDown ==
  /\ SpecDown
  /\ WF_vars(RunShutdown)
  /\ WF_vars(RunBroadcast)
  /\ WF_vars(\E c \in Conns : RunRegister(c))
  /\ WF_vars(\E c \in Conns : RunUnregister(c))
  /\ WF_vars(\E c \in Conns : readPump(c))
  /\ WF_vars(\E c \in Conns : writePump(c))
  /\ \A k \in Callers : WF_vars(ShutdownDone(k))

\* ------------------------------------------------- a sequential caller
\* One caller works through: register every connection, Broadcast(m1), submit the
\* unregistration of one connection, Broadcast(m2).  It uses the channels the way
\* the handlers do: `hub.register <- c` and `hub.unregister <- c` return when the
\* dispatch loop has received, `hub.broadcast <- m` when the buffer has taken m.
\* drv: "reg", "b1", "unreg", "sent" (blocked in the unregister send), "end".
DrvRegister(c) ==
  /\ drv = "reg"
  /\ \A d \in Conns : pc[d] \in {"idle", "serve"}
  /\ Accept(c)

DrvRegistered ==
  /\ Alive /\ drv = "reg"
  /\ \A d \in Conns : pc[d] = "serve"
  /\ drv' = "b1"
  /\ UNCHANGED <<kind, now, conn, peer, pc, pump, connections, connIndex, rooms,
                 running, shutdown, done, hubPc, broadcast, closeAsync, unregAsync, sd,
                 ret, nextMsg, joined, panic, todo, lk>>

DrvBroadcast ==
  /\ Alive /\ drv \in {"b1", "sent"}
  /\ drv = "sent" => \E c \in Conns : pc[c] = "done"
  /\ Len(broadcast) < DefaultBufferSize
  /\ broadcast' = Append(broadcast, Msg("all", 0, nextMsg))
  /\ nextMsg' = nextMsg + 1
  /\ drv' = IF drv = "b1" THEN "unreg" ELSE "end"
  /\ UNCHANGED <<kind, now, conn, peer, pc, pump, connections, connIndex, rooms,
                 running, shutdown, done, hubPc, closeAsync, unregAsync, sd, ret,
                 joined, panic, todo, lk>>

DrvUnregister(c) ==
  /\ Alive /\ drv = "unreg"
  /\ pc' = [pc EXCEPT ![c] = "unregister"]
  /\ drv' = "sent"
  /\ UNCHANGED <<kind, now, conn, peer, pump, connections, connIndex, rooms, running,
                 shutdown, done, hubPc, broadcast, closeAsync, unregAsync, sd, ret,
                 nextMsg, joined, panic, todo, lk>>

InitSeq ==
  /\ kind \in {"ws", "sse"}
  /\ now = 1
  /\ conn = [c \in Conns |-> NoConn]
  /\ peer = [c \in Conns |-> "up"]
  /\ pc = [c \in Conns |-> "idle"]
  /\ pump = [c \in Conns |-> "off"]
  /\ connections = {}
  /\ connIndex = EmptyMap
  /\ rooms = EmptyMap
  /\ running = FALSE
  /\ shutdown = FALSE
  /\ done = FALSE
  /\ hubPc = "idle"
  /\ broadcast = <<>>
  /\ closeAsync = {}
  /\ unregAsync = {}
  /\ sd = [k \in Callers |-> "idle"]
  /\ ret = "none"
  /\ nextMsg = 1
  /\ drv = "reg"
  /\ joined = {}
  /\ todo = <<>>
  /\ lk = NoLocks
  /\ panic = "none"

NextSeq ==
  \/ \E c \in Conns : DrvRegister(c)
  \/ DrvRegistered
  \/ DrvBroadcast
  \/ \E c \in Conns : DrvUnregister(c)
  \/ Run
  \/ \E c \in Conns : RunRegister(c)
  \/ \E c \in Conns : RunUnregister(c)
  \/ RunBroadcast
  \/ \E c \in Conns : writePump(c)
  \/ \E c \in Conns : AsyncClose(c)

SpecSeq == InitSeq /\ [][NextSeq]_vars

\* ------------------------------------------- a sequential caller with rooms
\* One caller works through: register every connection, JoinRoom(c, R) for every
\* connection c, LeaveRoom(A, R) for one connection A, BroadcastToRoom(R, x).  Every
\* call has returned before the next one is made; no connection goes away.
\* drv: "reg", "join", "leave", "cast", "end".
TheRoom(r) == \A j \in joined : j[2] = r

DrvJoin(c, room) ==
  /\ drv = "join" /\ <<c, room>> \notin joined /\ TheRoom(room)
  /\ JoinRoom(c, room)

DrvLeave(c, room) ==
  /\ drv = "leave" /\ <<c, room>> \in joined /\ Cardinality(joined) = NumConns
  /\ LeaveRoom(c, room)

DrvCast(room) ==
  /\ drv = "cast" /\ nextMsg = 1 /\ joined # {} /\ TheRoom(room)
  /\ BroadcastToRoom(room)

\* The caller moves on to its next call when the previous ones have returned.
DrvAdvance ==
  /\ Alive
  /\ \/ drv = "reg" /\ (\A c \in Conns : pc[c] = "serve") /\ drv' = "join"
     \/ drv = "join" /\ Cardinality(joined) = NumConns /\ drv' = "leave"
     \/ drv = "leave" /\ Cardinality(joined) = NumConns - 1 /\ drv' = "cast"
     \/ drv = "cast" /\ nextMsg = 2 /\ drv' = "end"
  /\ UNCHANGED <<kind, now, conn, peer, pc, pump, connections, connIndex, rooms,
                 running, shutdown, done, hubPc, broadcast, closeAsync, unregAsync, sd,
                 ret, nextMsg, joined, panic, todo, lk>>

NextLeave ==
  \/ \E c \in Conns : DrvRegister(c)
  \/ \E c \in Conns, room \in Rooms : DrvJoin(c, room)
  \/ \E c \in Conns, room \in Rooms : DrvLeave(c, room)
  \/ \E room \in Rooms : DrvCast(room)
  \/ DrvAdvance
  \/ Run
  \/ \E c \in Conns : RunRegister(c)
  \/ \E c \in Conns : writePump(c)

SpecLeave == InitSeq /\ [][NextLeave]_vars

\* ------------------------------------------------- rooms and shutdown
\* Connections come and go and join and leave rooms while the hub is shut down.
NextRoomsDown ==
  \/ \E c \in Conns : Accept(c)
  \/ \E c \in Conns : PeerGone(c)
  \/ \E c \in Conns : readPump(c)
  \/ \E c \in Conns : CtxDone(c)
  \/ Run
  \/ \E c \in Conns : RunRegister(c)
  \/ \E c \in Conns : RunUnregister(c)
  \/ RunShutdown
  \/ \E c \in Conns, room \in Rooms : JoinRoom(c, room)
  \/ \E c \in Conns, room \in Rooms : LeaveRoom(c, room)
  \/ \E k \in Callers : Shutdown(k)
  \/ \E k \in Callers : ShutdownDone(k)

SpecRoomsDown == InitOne /\ [][NextRoomsDown]_vars

\* ------------------------------------------- unregistration, lock by lock
\* unregisterConn / unregisterClient step by step.  hubPc = "unreg": the dispatch
\* loop is inside it and holds connMu (clientMu); pc[c] = "unregistering": c is out
\* of the registry and the index, removeFromAllRooms has not run yet.
connMuNotHeld(h) == FALSE

connMuHeld(h) == h = "unreg"

\* connMu.Lock(); if present: delete(h.connections, conn); delete(h.connIndex, id).
UnregisterBegin(c) ==
  /\ Alive /\ hubPc = "loop" /\ pc[c] = "unregister"
  /\ IF c \in connections
     THEN /\ connections' = connections \ {c}
          /\ connIndex' = Delete(connIndex, {conn[c].id})
          /\ hubPc' = "unreg"
          /\ pc' = [pc EXCEPT ![c] = "unregistering"]
          /\ joined' = {j \in joined : j[1] # c}
     ELSE /\ pc' = [pc EXCEPT ![c] = "done"]
          /\ UNCHANGED <<connections, connIndex, hubPc, joined>>
  /\ UNCHANGED <<kind, now, conn, peer, pump, rooms, running, shutdown, done, broadcast,
                 closeAsync, unregAsync, sd, ret, nextMsg, drv, panic, todo, lk>>

\* h.removeFromAllRooms(id) under the rooms lock (an SSE client is then closed);
\* the deferred connMu.Unlock().
UnregisterEnd(c) ==
  /\ Alive /\ hubPc = "unreg" /\ pc[c] = "unregistering"
  /\ rooms' = removeFromAllRooms(rooms, conn[c].id)
  /\ conn' = IF kind = "sse" THEN [conn EXCEPT ![c] = SSEClose(@)] ELSE conn
  /\ hubPc' = "loop"
  /\ pc' = [pc EXCEPT ![c] = "done"]
  /\ joined' = {j \in joined : j[1] # c}
  /\ UNCHANGED <<kind, now, peer, pump, connections, connIndex, running, shutdown, done,
                 broadcast, closeAsync, unregAsync, sd, ret, nextMsg, drv, panic, todo,
                 lk>>

\* BroadcastToRoom holds connMu.RLock from its first line on; JoinRoom, LeaveRoom
\* and RoomCount take the rooms lock only.
NextLocks ==
  \/ \E c \in Conns : Accept(c)
  \/ \E c \in Conns : PeerGone(c)
  \/ \E c \in Conns : readPump(c)
  \/ \E c \in Conns : CtxDone(c)
  \/ Run
  \/ \E c \in Conns : RunRegister(c)
  \/ \E c \in Conns : UnregisterBegin(c)
  \/ \E c \in Conns : UnregisterEnd(c)
  \/ \E room \in Rooms : ~connMuHeld(hubPc) /\ BroadcastToRoom(room)
  \/ \E c \in Conns, room \in Rooms : JoinRoom(c, room)
  \/ \E c \in Conns, room \in Rooms : LeaveRoom(c, room)

SpecLocks == InitOne /\ [][NextLocks]_vars

\* --------------------------------------------------- a burst of broadcasts
\* One caller registers every connection and then calls Broadcast until it has
\* submitted more payloads than a queue holds; remote ends may go away.
BurstLen == DefaultBufferSize + 2

DrvBurst ==
  /\ Alive /\ drv = "b1" /\ nextMsg <= BurstLen
  /\ Len(broadcast) < DefaultBufferSize
  /\ broadcast' = Append(broadcast, Msg("all", 0, nextMsg))
  /\ nextMsg' = nextMsg + 1
  /\ UNCHANGED <<kind, now, conn, peer, pc, pump, connections, connIndex, rooms,
                 running, shutdown, done, hubPc, closeAsync, unregAsync, sd, ret, drv,
                 joined, panic, todo, lk>>

NextBurst ==
  \/ \E c \in Conns : DrvRegister(c)
  \/ DrvRegistered
  \/ DrvBurst
  \/ \E c \in Conns : PeerGone(c)
  \/ \E c \in Conns : readPump(c)
  \/ \E c \in Conns : CtxDone(c)
  \/ \E c \in Conns : writePump(c)
  \/ \E c \in Conns : writePumpPing(c)
  \/ \E c \in Conns : AsyncClose(c)
  \/ Run
  \/ \E c \in Conns : RunRegister(c)
  \/ \E c \in Conns : RunUnregister(c)
  \/ \E c \in Conns : RunUnregisterAsync(c)
  \/ RunBroadcast

SpecBurst == InitSeq /\ [][NextBurst]_vars

\* The dispatch loop takes a ready case sooner or later, and the goroutines of the
\* connections (read pump, context watcher, spawned close) run when they can.  The
\* caller, the remote ends and the write pumps are under no obligation.
FairBurst ==
  /\ SpecBurst
  /\ WF_vars(RunBroadcast)
  /\ \A c \in Conns : /\ WF_vars(RunRegister(c))
                      /\ WF_vars(RunUnregister(c))
                      /\ WF_vars(RunUnregisterAsync(c))
                      /\ WF_vars(readPump(c))
                      /\ WF_vars(CtxDone(c))
                      /\ WF_vars(AsyncClose(c))

\* ------------------------------------------- direct use of a connection
\* The application sends on and closes the connections it was handed; remote ends
\* may go away.
NextWriter ==
  \/ \E c \in Conns : Accept(c)
  \/ Run
  \/ \E c \in Conns : RunRegister(c)
  \/ \E c \in Conns : PeerGone(c)
  \/ \E c \in Conns : kind = "ws" /\ CallSend(c)
  \/ \E c \in Conns, e \in SSEEvents : SendEvent(c, e)
  \/ \E c \in Conns : SendComment(c)
  \/ \E c \in Conns : CallClose(c)

SpecWriter == InitOne /\ [][NextWriter]_vars

\* ------------------------------------------- broadcasts, then the shutdown
\* One caller registers every connection, calls Broadcast some times and then
\* Shutdown, so every payload in the buffer was accepted before the shutdown was
\* requested; other callers may call Shutdown too.
DrvSubmit ==
  /\ drv = "b1" /\ ~shutdown
  /\ Broadcast

DrvShutdown(k) ==
  /\ drv = "b1"
  /\ Shutdown(k)

NextDrain ==
  \/ \E c \in Conns : DrvRegister(c)
  \/ DrvRegistered
  \/ DrvSubmit
  \/ \E k \in Callers : DrvShutdown(k)
  \/ \E k \in Callers : ShutdownDone(k)
  \/ \E c \in Conns : PeerGone(c)
  \/ \E c \in Conns : writePump(c)
  \/ Run
  \/ \E c \in Conns : RunRegister(c)
  \/ RunBroadcast
  \/ RunShutdown

SpecDrain == InitSeq /\ [][NextDrain]_vars

\* ------------------------------------------------- unresponsive remote ends
\* The shutdown workload with remote ends that may stop responding.
NextSlow ==
  \/ \E c \in Conns : Accept(c)
  \/ \E c \in Conns : PeerStall(c)
  \/ \E c \in Conns : PeerGone(c)
  \/ \E c \in Conns : readPump(c)
  \/ \E c \in Conns : CtxDone(c)
  \/ \E c \in Conns : writePump(c)
  \/ Run
  \/ \E c \in Conns : RunRegister(c)
  \/ \E c \in Conns : RunUnregister(c)
  \/ \E c \in Conns : RunUnregisterAsync(c)
  \/ RunBroadcast
  \/ RunShutdown
  \/ Broadcast
  \/ \E k \in Callers : Shutdown(k)
  \/ \E k \in Callers : ShutdownDone(k)

SpecSlow == InitOne /\ [][NextSlow]_vars

\* The dispatch loop takes a ready case sooner or later and goes on once a write has
\* completed or failed, runnable goroutines run, and a deadline that was set passes.
\* The callers and the remote ends are under no obligation.
FairSlow ==
  /\ SpecSlow
  /\ WF_vars(RunShutdown)
  /\ WF_vars(RunBroadcast)
  /\ \A c \in Conns : /\ WF_vars(RunRegister(c))
                      /\ WF_vars(RunUnregister(c))
                      /\ WF_vars(RunUnregisterAsync(c))
                      /\ WF_vars(readPump(c))
                      /\ WF_vars(writePump(c))
                      /\ WF_vars(CtxDone(c))
  /\ \A k \in Callers : WF_vars(ShutdownDone(k))

\* ------------------------------------------------------- the write pump
\* The application sends on and closes registered connections while their pumps
\* run and remote ends go away.
NextPump ==
  \/ \E c \in Conns : Accept(c)
  \/ Run
  \/ \E c \in Conns : RunRegister(c)
  \/ \E c \in Conns : RunUnregister(c)
  \/ \E c \in Conns : PeerGone(c)
  \/ \E c \in Conns : pc[c] = "serve" /\ CallSend(c)
  \/ \E c \in Conns : CallClose(c)
  \/ \E c \in Conns : readPump(c)
  \/ \E c \in Conns : writePump(c)
  \/ \E c \in Conns : writePumpPing(c)

SpecPump == Init /\ [][NextPump]_vars

\* A write pump whose select has a ready case takes it: a queued payload or the
\* closed queue is received, and the ping ticker fires.
FairPump ==
  /\ SpecPump
  /\ \A c \in Conns : WF_vars(writePump(c)) /\ WF_vars(writePumpPing(c))

TypeOK ==
  /\ kind \in {"ws", "sse"}
  /\ now \in IDs
  /\ \A c \in Conns : conn[c].id \in 0..MaxClock /\ Len(conn[c].send) <= DefaultBufferSize
  /\ connections \subseteq Conns
  /\ DOMAIN connIndex \subseteq IDs
  /\ DOMAIN rooms \subseteq Rooms

\* ------------------------------------------------------------------ claims
\* The dispatch loop takes a payload off the broadcast channel and runs
\* broadcastToAll (which may end in the panic).
BroadcastStep ==
  /\ hubPc = "loop" /\ broadcast # <<>>
  /\ \/ panic' = "send on closed channel"
     \/ Alive' /\ broadcast' = Tail(broadcast)

\* The connection can take a payload at all: it is open, its queue (WebSocket) has
\* room, and its transport (SSE, written synchronously) accepts the write.
CanTake(c) ==
  /\ ~conn[c].closed
  /\ kind = "ws" => Len(conn[c].send) < DefaultBufferSize
  /\ kind = "sse" => peer[c] = "up"

\* C1: Whenever the dispatch loop processes a broadcast event, every connection
\* that is in the registry at that moment and can take the payload (queue not
\* full) has received it exactly once when the event has been processed.
C1_BroadcastCompleteness ==
  [][BroadcastStep =>
       \A c \in connections :
         CanTake(c) =>
           Count(Inbox(conn'[c]), Head(broadcast))
             = Count(Inbox(conn[c]), Head(broadcast)) + 1]_vars

\* In this step connection c is handed a payload of a broadcast to room r.
GainsRoomPayload(c, r) ==
  \E n \in 1..NumMsgs :
    Count(Inbox(conn'[c]), Msg("room", r, n)) > Count(Inbox(conn[c]), Msg("room", r, n))

Settled ==
  /\ \A c \in Conns : pc[c] \notin {"register", "unregister"}
  /\ unregAsync = {}

\* C3: Registry/room consistency.  Once the register, unregister, JoinRoom and
\* LeaveRoom operations issued so far have settled, every identifier in any room's
\* member set is in the hub's identifier index.
C3_RegistryRoomConsistency ==
  (Alive /\ Settled) => \A r \in DOMAIN rooms : rooms[r] \subseteq DOMAIN connIndex

\* C4: Idempotent close.  However many tasks call Close on a connection (read pump,
\* write pump, overflow goroutines, the application, the hub), the body behind the
\* closed flag - close(c.send) and c.conn.Close() for a WSConn, the disconnect
\* notification for an SSEWriter - has run exactly once for a closed connection
\* and never for an open one.
C4_IdempotentClose ==
  \A c \in Conns :
    /\ conn[c].closes <= 1
    /\ conn[c].closed <=> conn[c].closes = 1

\* A WebSocket connection on which the read pump's and the write pump's deferred
\* Close have both run.
C4_Witness ==
  \E c \in Conns :
    /\ kind = "ws" /\ pump[c] = "exit" /\ pc[c] \in {"unregister", "done"}
    /\ conn[c].closes = 1

\* An open WebSocket connection whose outbound queue is full.
Full(c) ==
  kind = "ws" /\ ~conn[c].closed /\ Len(conn[c].send) = DefaultBufferSize

\* C5 as claimed: a payload offered to a full queue (by WSConn.Send or by the hub's
\* broadcast) is dropped without blocking the sender and the connection is closed
\* (at once, or by the close the sender scheduled).
C5_Original ==
  [][\A c \in Conns :
       (Full(c) /\ Alive' /\ (CallSend(c) \/ (BroadcastStep /\ c \in connections)))
         => /\ conn'[c].send = conn[c].send
            /\ conn'[c].closed \/ c \in closeAsync']_vars

\* C5: Backpressure.  A payload offered to a full queue is dropped and the sender
\* goes on without blocking.  The hub's broadcast schedules the asynchronous close
\* of the connection; a direct WSConn.Send returns an error and leaves the
\* connection open, with no close scheduled.
C5_Backpressure ==
  [][\A c \in Conns :
       (Full(c) /\ Alive') =>
         /\ (BroadcastStep /\ c \in connections)
              => conn'[c] = conn[c] /\ c \in closeAsync'
         /\ CallSend(c)
              => conn'[c] = conn[c] /\ ret' = "err" /\ closeAsync' = closeAsync]_vars

\* A registered connection with a full queue for which the broadcast has spawned
\* the closing goroutine, which has not run yet.
C5_Witness ==
  \E c \in connections :
    Full(c) /\ c \in closeAsync

\* The dispatch loop takes the shutdown case: closeAllConnections / closeAllClients,
\* then the done channel is closed.
ShutdownStep == hubPc = "loop" /\ hubPc' = "exited"

\* The final notification of the hub's kind.
FinalNotice == IF kind = "ws" THEN GoingAway ELSE ShutdownEvent

\* C6: Graceful shutdown.  When Shutdown is called on a running hub and its
\* deadline does not expire, every registered connection that can still be written
\* to is sent the final notification and then closed, every connection that was
\* registered ends up closed, and the call returns nil.
C6_GracefulShutdown ==
  /\ [][ShutdownStep =>
          \A c \in connections :
            /\ conn'[c].closed
            /\ Writable(conn[c], peer[c])
                 => conn'[c].wire = Append(conn[c].wire, FinalNotice)]_vars
  /\ \A k \in Callers :
       (sd[k] = "wait" /\ hubPc = "loop")
         ~> \/ sd[k] = "timeout"
            \/ /\ sd[k] = "nil"
               /\ connections = {}
               /\ \A c \in Conns : pc[c] \in {"serve", "unregister", "done"} => conn[c].closed

\* C7: Shutdown timeout.  When the deadline of a Shutdown call on a running hub
\* passes before the done-signal fires, the call returns the timeout error, and the
\* dispatch loop still closes all registered connections and fires the done-signal.
C7_ShutdownTimeout ==
  \A k \in Callers :
    (sd[k] = "timeout" /\ hubPc = "loop") ~> (Alive /\ done /\ connections = {})

\* C8: The shutdown-signal is closed exactly once: no Shutdown call, however many
\* are made, closes the shutdown channel a second time (which would fault).
C8_ShutdownSignalClosedOnce == panic # "close of closed channel"

\* The two payloads of the sequential caller, and the end of its scenario: both
\* Broadcast calls have returned and the dispatch loop has emptied the buffer.
M1 == Msg("all", 0, 1)
M2 == Msg("all", 0, 2)
SeqEnd == drv = "end" /\ broadcast = <<>> /\ Alive
Got(c, m) == Count(Inbox(conn[c]), m)
Overflowed(c) == c \in closeAsync \/ conn[c].closed

\* C9 as claimed: after register, Broadcast(m1), unregister of c, Broadcast(m2), every
\* connection (c included) has received m1, and m2 has been received by exactly the
\* remaining connections.
C9_Original ==
  SeqEnd => \A c \in Conns :
              /\ Got(c, M1) = 1
              /\ Got(c, M2) = IF pc[c] = "done" THEN 0 ELSE 1

\* C9: Broadcast/unregister sequencing.  After register, Broadcast(m1), unregister of
\* c, Broadcast(m2): c has received m1 at most once (the loop may take the
\* unregistration before the buffered m1) and m2 never; every remaining connection
\* has received m1 and m2 exactly once each, except one whose queue was full when m2
\* arrived: the hub scheduled its close, it has not received m2, and a queued m1 may
\* be lost with the close.
C9_BroadcastUnregisterSequencing ==
  SeqEnd => \A c \in Conns :
              IF pc[c] = "done"
              THEN Got(c, M1) \in {0, 1} /\ Got(c, M2) = 0 /\ c \notin connections
              ELSE /\ c \in connections
                   /\ IF Overflowed(c)
                      THEN Got(c, M1) \in {0, 1} /\ Got(c, M2) = 0
                      ELSE Got(c, M1) = 1 /\ Got(c, M2) = 1

C9_Witness ==
  /\ SeqEnd
  /\ \E c \in Conns :
       /\ pc[c] = "done" /\ Got(c, M1) = 0 /\ Got(c, M2) = 0
       /\ \A d \in Conns \ {c} : pc[d] = "serve" /\ Got(d, M1) = 1 /\ Got(d, M2) = 1

\* The end of the room scenario: BroadcastToRoom(R, x) has returned.
LeaveEnd == drv = "end" /\ Alive

\* C10: Leave takes effect for room broadcasts.  After every connection joined room
\* R, connection A left R and BroadcastToRoom(R, x) returned, x has been delivered
\* exactly once to every connection still joined to R and not at all to A.
C10_LeaveTakesEffect ==
  LeaveEnd => \A c \in Conns, r \in Rooms :
                (joined # {} /\ TheRoom(r))
                  => Got(c, Msg("room", r, 1)) = IF <<c, r>> \in joined THEN 1 ELSE 0

\* The lines of a piece of the stream, each without its line feed (a last line
\* that has no line feed is included).
RECURSIVE Lines(_, _)
Lines(s, cur) ==
  IF s = <<>> THEN (IF cur = <<>> THEN <<>> ELSE <<cur>>)
  ELSE IF Head(s) = NL THEN <<cur>> \o Lines(Tail(s), <<>>)
  ELSE Lines(Tail(s), Append(cur, Head(s)))

\* What a step appended to the stream of writer c.
Written(c) == SubSeq(conn'[c].wire, Len(conn[c].wire) + 1, Len(conn'[c].wire))

\* The field lines that precede the data of event e.
HeaderLines(e) ==
  (IF e.Event # "" THEN << <<"event: ", e.Event>> >> ELSE <<>>)
  \o (IF e.ID # "" THEN << <<"id: ", e.ID>> >> ELSE <<>>)
  \o (IF e.Retry > 0 THEN << <<"retry: ", ToString(e.Retry)>> >> ELSE <<>>)

\* L is a frame of e: the field lines in order, then one or more data lines, then
\* the blank line that ends the frame.
WellFormed(L, e) ==
  LET h == HeaderLines(e)
  IN /\ Len(L) >= Len(h) + 2
     /\ SubSeq(L, 1, Len(h)) = h
     /\ L[Len(L)] = <<>>
     /\ \A i \in (Len(h) + 1)..(Len(L) - 1) : L[i] # <<>> /\ Head(L[i]) = "data: "

Welcome == [Event |-> "welcome", ID |-> "", Retry |-> 0,
            Data |-> [t |-> "string", v |-> <<"hi">>]]

\* C11: SSE frame format.  SSEWriter.Send on an open writer emits an 'event:' line
\* only if Event is non-empty, an 'id:' line only if ID is non-empty, a 'retry:' line
\* only if Retry > 0, then the 'data:' line(s) and a terminating blank line; for
\* Event = "welcome", Data = "hi" exactly 'event: welcome', 'data: hi' and a blank line.
C11_SSEFrameFormat ==
  [][\A c \in Conns, e \in SSEEvents :
       (SendEvent(c, e) /\ Writable(conn[c], peer[c]))
         => /\ WellFormed(Lines(Written(c), <<>>), e)
            /\ e = Welcome
                 => Written(c) = <<"event: ", "welcome", NL, "data: ", "hi", NL, NL>>]_vars

\* C12: Failure containment.  A connection that has failed (closed by its peer,
\* after an overflow, or by another task) never faults the dispatch loop in a
\* broadcast: the loop finishes the broadcast, nothing is put on the queue of a
\* closed connection, and every other registered connection with room gets the
\* payload.
C12_FailureContainment ==
  [][(hubPc = "loop" /\ broadcast # <<>> /\ broadcast' # broadcast)
       => /\ Alive'
          /\ \A c \in connections :
               /\ conn[c].closed => conn'[c].send = conn[c].send
               /\ CanTake(c) => Count(Inbox(conn'[c]), Head(broadcast)) = 1]_vars

\* C13: Send on a closed connection fails immediately.  Once a connection is closed,
\* WSConn.Send, SSEWriter.Send and SSEWriter.SendComment return an error, put
\* nothing on the queue and write nothing to the transport.
C13_SendOnClosedFails ==
  [][\A c \in Conns :
       (conn[c].closed /\ (CallSend(c) \/ SendComment(c)
                             \/ \E e \in SSEEvents : SendEvent(c, e)))
         => ret' = "err" /\ conn'[c] = conn[c]]_vars

C13_Witness ==
  /\ kind = "sse" /\ ret = "err" /\ nextMsg = NumMsgs + 1
  /\ \A d \in Conns : peer[d] = "up"
  /\ \E c \in Conns : conn[c].closed /\ conn[c].wire = <<>>

\* The dispatch loop processes an unregister event for c (from the handler or from
\* a failed delivery).
UnregisterStep(c) == RunUnregister(c) \/ RunUnregisterAsync(c)

\* C14: Unregister handling.  When the dispatch loop has processed unregister(c), c
\* is in neither the registry, the identifier index nor any room, and c is closed,
\* whether it was registered or not.
C14_UnregisterHandling ==
  [][\A c \in Conns :
       UnregisterStep(c)
         => /\ c \notin connections'
            /\ c \in connections
                 => /\ conn[c].id \notin DOMAIN connIndex'
                    /\ \A r \in DOMAIN rooms' : conn[c].id \notin rooms'[r]
            /\ conn'[c].closed]_vars

\* Delivery to c failed in a broadcast and the hub has spawned its reaction (the
\* close of a WebSocket connection, the unregister request of an SSE client).
DeliveryFailed(c) == Alive /\ c \in connections /\ (c \in closeAsync \/ c \in unregAsync)

Removed(c) ==
  /\ c \notin connections
  /\ \A i \in DOMAIN connIndex : connIndex[i] # c
  /\ \A r \in DOMAIN rooms : conn[c].id \notin rooms[r]

\* C15: Eventual removal after failed delivery.  A broadcast never removes a
\* connection inline, and a registered connection to which delivery failed is,
\* with the dispatch loop running on, eventually out of the registry, the
\* identifier index and all rooms.
C15_EventualRemoval ==
  /\ [][(BroadcastStep /\ Alive') => connections' = connections]_vars
  /\ \A c \in Conns : DeliveryFailed(c) ~> (Alive /\ Removed(c))

\* C16: Connection identifiers are unique.  Any two distinct connections that have
\* been constructed have different identifiers, and the identifier index gives,
\* for the identifier of every registered connection, that connection.
C16_UniqueIdentifiers ==
  /\ \A c, d \in Conns :
       (c # d /\ conn[c].id # 0 /\ conn[d].id # 0) => conn[c].id # conn[d].id
  /\ \A c \in connections :
       conn[c].id \in DOMAIN connIndex /\ connIndex[conn[c].id] = c

\* c has been taken out of the registry by an unregistration.
Unregistered(c) == pc[c] \in {"unregistering", "done"} /\ c \notin connections

\* The identifier of c is in room r although no connection with that identifier
\* has joined r since the unregistration of c.
StaleMember(c, r) ==
  /\ r \in DOMAIN rooms /\ conn[c].id \in rooms[r]
  /\ \A d \in Conns : conn[d].id = conn[c].id => <<d, r>> \notin joined

C18_JoinIdempotent ==
  [][\A c \in Conns, r \in Rooms :
       JoinRoom(c, r)
         => /\ (r \in DOMAIN rooms /\ conn[c].id \in rooms[r]) => rooms' = rooms
            /\ addToRoom(rooms', conn[c].id, r) = rooms'
            /\ roomCount(rooms', r)
                 = roomCount(removeFromRoom(rooms', conn[c].id, r), r) + 1]_vars

\* c is a member of r together with another connection, and may join again.
C18_Witness ==
  \E c, d \in connections, r \in Rooms :
    /\ Alive /\ conn[c].id # conn[d].id
    /\ <<c, r>> \in joined /\ <<d, r>> \in joined
    /\ r \in DOMAIN rooms /\ rooms[r] = {conn[c].id, conn[d].id}

\* C19: No empty room persists.  After every join, leave and unregistration the
\* room index holds no room whose member set is empty.
C19_NoEmptyRoom == \A r \in DOMAIN rooms : rooms[r] # {}

\* A connection has left everything (its unregistration was processed), one room
\* went with it and another room, with a member of its own, is still there.
C19_Witness ==
  \E c \in Conns, r \in Rooms :
    /\ pc[c] = "done" /\ \A q \in DOMAIN rooms : conn[c].id \notin rooms[q]
    /\ r \in DOMAIN rooms /\ DOMAIN rooms # Rooms

\* C20: Room membership invariant.  The identifier of a constructed connection c is
\* in the member set of room R if and only if a JoinRoom(c, R) has happened after
\* the last LeaveRoom(c, R) and the last unregistration of c, by the unregister
\* event or by the hub's shutdown.
C20_RoomMembership ==
  Alive => \A c \in Conns, r \in Rooms :
             conn[c].id # 0
               => ((r \in DOMAIN rooms /\ conn[c].id \in rooms[r]) <=> <<c, r>> \in joined)

\* The stage of the hub's lifecycle, read off the channels and the running flag:
\* 0 idle, 1 running (Run has started), 2 draining (the shutdown channel is closed),
\* 3 stopped (the done channel is closed).
Stage ==
  IF done THEN 3 ELSE IF shutdown THEN 2 ELSE IF hubPc = "loop" THEN 1 ELSE 0

\* The dispatch loop processes a register, an unregister or a broadcast event.
LoopEvent ==
  \/ connections' # connections
  \/ connIndex' # connIndex
  \/ broadcast # <<>> /\ broadcast' = Tail(broadcast)
  \/ \E c \in Conns : pc[c] \in {"register", "unregister"} /\ pc'[c] # pc[c]

\* C21: Hub lifecycle.  A hub moves only forward through idle, running, draining,
\* stopped; the done channel is closed once, only after a shutdown was requested and
\* when closeAllConnections / closeAllClients has finished; and once the hub is
\* stopped the dispatch loop processes no register, unregister or broadcast event.
C21_HubLifecycle ==
  /\ [][Alive' => Stage' >= Stage]_vars
  /\ [][(~done /\ done')
          => /\ shutdown /\ ShutdownStep
             /\ connections' = {} /\ connIndex' = EmptyMap
             /\ \A c \in connections : conn'[c].closed]_vars
  /\ [][(done /\ Alive') => ~LoopEvent]_vars

\* C22: Shutdown drains the buffered requests once.  The payloads that were in the
\* buffer of the broadcast channel when the shutdown was requested have been
\* processed by the dispatch loop when it closes the connections and the done channel.
C22_ShutdownDrains ==
  [][ShutdownStep => broadcast = <<>>]_vars

\* In this step connection c is handed payload m.
Gains(c, m) == Count(Inbox(conn'[c]), m) > Count(Inbox(conn[c]), m)

\* The payloads of the Broadcast calls.
BroadcastMsgs == {Msg("all", 0, n) : n \in 1..NumMsgs}

\* The recipients of a broadcast are within the snapshot: a connection is handed a
\* broadcast payload only in the step in which the dispatch loop processes it, only
\* if it is in the registry at that moment, and once.
WithinSnapshot ==
  \A c \in Conns, m \in BroadcastMsgs :
    Gains(c, m)
      => /\ BroadcastStep /\ Head(broadcast) = m /\ c \in connections
         /\ Count(Inbox(conn[c]), m) = 0 /\ Count(Inbox(conn'[c]), m) = 1

\* C23 as claimed: the recipients of a broadcast are exactly the connections in the
\* registry at the moment the dispatch loop processes it.
C23_Original ==
  [][/\ WithinSnapshot
     /\ BroadcastStep => \A c \in connections : Gains(c, Head(broadcast))]_vars

\* C23: Broadcast snapshot.  A broadcast is delivered only to connections that are
\* in the registry at the moment the dispatch loop processes the broadcast event,
\* to each at most once; a connection whose register event is processed after that
\* moment never receives it.  Not every connection of the snapshot receives it.
C23_BroadcastSnapshot == [][WithinSnapshot]_vars

\* Two open registered connections with live remote ends: one has received a
\* broadcast, the other, registered after it was processed, has received nothing.
C23_Witness ==
  \E c, d \in connections, m \in BroadcastMsgs :
    /\ Alive /\ broadcast = <<>>
    /\ Count(Inbox(conn[c]), m) = 1
    /\ ~conn[d].closed /\ peer[d] = "up" /\ Inbox(conn[d]) = <<>>

\* C24: A slow or unresponsive client cannot block shutdown.  After Shutdown is
\* requested on a running hub (with no broadcast left to process) the done channel
\* is eventually closed, even if the transport of a registered connection never
\* takes the final notification (unless the process has ended in a panic before).
C24_SlowClientShutdown ==
  (shutdown /\ hubPc \in {"loop", "closing"} /\ broadcast = <<>> /\ nextMsg > NumMsgs)
    ~> (done \/ ~Alive)

\* C25: The dispatch loop never blocks indefinitely on a slow consumer.  For both
\* hub kinds, once the loop has begun to process a broadcast it gets back to its
\* select (unless the process ends in a panic), even if a registered connection
\* never drains its queue or never takes a write.
C25_BroadcastNeverBlocks ==
  (hubPc = "broadcasting") ~> (hubPc = "loop" \/ ~Alive)

\* C26: Hub-attached request handlers terminate.  Once the remote end of a served
\* connection is gone or the connection is closed (by anyone, the hub's shutdown
\* included), its request handler eventually returns: its unregister submission
\* does not block forever, whether the dispatch loop is still running or not
\* (unless the process has ended in a panic before).
C26_HandlersTerminate ==
  \A c \in Conns :
    (pc[c] \in {"serve", "unregister"} /\ (peer[c] = "gone" \/ conn[c].closed))
      ~> (pc[c] = "done" \/ ~Alive)

\* C27: Read loop termination.  Whenever the read loop of a WebSocket connection
\* ends (transport error, close frame, read deadline), the connection is closed and
\* exactly one disconnect notification has been emitted for it; no notification is
\* emitted for a connection whose read loop is still running.
C27_ReadLoopTermination ==
  /\ [][\A c \in Conns :
          readPump(c) => conn'[c].closed /\ conn'[c].emits = conn[c].emits + 1]_vars
  /\ [](\A c \in Conns :
          /\ conn[c].emits <= 1
          /\ pc[c] \in {"idle", "register", "serve"} => conn[c].emits = 0
          /\ (kind = "ws" /\ pc[c] \in {"unregister", "done"})
               => conn[c].closed /\ conn[c].emits = 1)

\* The read loop of a connection whose remote end is still there has ended, after
\* another task (the application, the overflow goroutine, the write pump) closed it.
C27_Witness ==
  \E c \in Conns :
    /\ kind = "ws" /\ pc[c] \in {"unregister", "done"} /\ peer[c] = "up"
    /\ conn[c].closed /\ conn[c].emits = 1

\* A step of the write pump of c (a received payload, the closed queue, or a ping).
PumpStep(c) == writePump(c) \/ writePumpPing(c)

C29_RunningFalseAfterShutdown ==
  (Alive /\ shutdown) => ~running


\* ------------------------------------------------- the writers of the registry
\* Every operation on the hub at once: connections come and go and join and leave
\* rooms, callers broadcast to all and to rooms and one of them requests the shutdown.
NextRegistry ==
  \/ \E c \in Conns : Accept(c)
  \/ \E c \in Conns : PeerGone(c)
  \/ \E c \in Conns : readPump(c)
  \/ \E c \in Conns : CtxDone(c)
  \/ Run
  \/ \E c \in Conns : RunRegister(c)
  \/ \E c \in Conns : RunUnregister(c)
  \/ \E c \in Conns : RunUnregisterAsync(c)
  \/ RunBroadcast
  \/ RunShutdown
  \/ Broadcast
  \/ \E room \in Rooms : BroadcastToRoom(room)
  \/ \E c \in Conns, room \in Rooms : JoinRoom(c, room)
  \/ \E c \in Conns, room \in Rooms : LeaveRoom(c, room)
  \/ \E k \in Callers : k = NumCallers /\ Shutdown(k)

SpecRegistry == InitOne /\ [][NextRegistry]_vars

\* A step writes the registry map or the identifier index.
RegistryWrite == connections' # connections \/ connIndex' # connIndex

\* A step of the dispatch loop: in its select, or inside closeAllConnections /
\* closeAllClients, it receives a registration, receives an unregistration from a
\* handler or from a goroutine a failed delivery spawned, or takes the shutdown case.
DispatchLoopStep ==
  /\ hubPc \in {"loop", "closing"}
  /\ \/ \E c \in Conns : pc[c] = "register" /\ pc'[c] = "serve"
     \/ \E c \in Conns : pc[c] = "unregister" /\ pc'[c] \in {"unregistering", "done"}
     \/ \E c \in Conns : c \in unregAsync /\ c \notin unregAsync'
     \/ (shutdown \/ hubPc = "closing") /\ hubPc' \in {"closing", "exited"}

\* C30: Single writer of the registry.  Every step that changes the registry map or
\* the identifier index is a step of the dispatch loop: a registration, an
\* unregistration or the closing of all connections.  Broadcast, BroadcastToRoom,
\* JoinRoom, LeaveRoom and the request handlers leave both as they are.
C30_SingleWriter ==
  [][(Alive' /\ RegistryWrite) => DispatchLoopStep]_vars

\* A registration and an unregistration have been served, and a room broadcast has
\* reached a registered member of the room.
C30_Witness ==
  \E c, d \in Conns, room \in Rooms :
    /\ c \in connections /\ <<c, room>> \in joined
    /\ Msg("room", room, NumMsgs) \in Range(Inbox(conn[c]))
    /\ pc[d] = "done" /\ d \notin connections


\* ------------------------------------------------- writers of one transport
\* WSConn.writePump, the `<-c.send` case, step by step.  pump[c] = "writing": the
\* pump has received a payload, set the write deadline and is inside
\* c.conn.WriteMessage; the frame is going out on the transport.
writeBegin(c) ==
  /\ Alive /\ kind = "ws" /\ pump[c] = "run"
  /\ conn[c].send # <<>> /\ Writable(conn[c], peer[c])
  /\ conn' = [conn EXCEPT ![c] = [@ EXCEPT !.send = Tail(@),
                                           !.wire = Append(@, Head(conn[c].send))]]
  /\ pump' = [pump EXCEPT ![c] = "writing"]
  /\ UNCHANGED <<kind, now, peer, pc, connections, connIndex, rooms, running, shutdown,
                 done, hubPc, broadcast, closeAsync, unregAsync, sd, ret, nextMsg, drv,
                 panic, joined, todo, lk>>

\* c.conn.WriteMessage returns to the pump, which goes back to its select.
writeEnd(c) ==
  /\ Alive /\ pump[c] = "writing"
  /\ pump' = [pump EXCEPT ![c] = "run"]
  /\ UNCHANGED <<kind, now, conn, peer, pc, connections, connIndex, rooms, running,
                 shutdown, done, hubPc, broadcast, closeAsync, unregAsync, sd, ret,
                 nextMsg, drv, panic, joined, todo, lk>>

\* Registered WebSocket connections are broadcast to and written by their pumps while
\* remote ends go away and the hub is shut down.
NextWire ==
  \/ \E c \in Conns : Accept(c)
  \/ \E c \in Conns : PeerGone(c)
  \/ \E c \in Conns : readPump(c)
  \/ \E c \in Conns : writeBegin(c)
  \/ \E c \in Conns : writeEnd(c)
  \/ \E c \in Conns : ~Writable(conn[c], peer[c]) /\ writePump(c)
  \/ \E c \in Conns : writePumpPing(c)
  \/ Run
  \/ \E c \in Conns : RunRegister(c)
  \/ \E c \in Conns : RunUnregister(c)
  \/ RunBroadcast
  \/ RunShutdown
  \/ Broadcast
  \/ \E k \in Callers : k = NumCallers /\ Shutdown(k)

\* A WebSocket hub.
InitWire == InitOne /\ kind = "ws"

SpecWire == InitWire /\ [][NextWire]_vars

\* The dispatch loop, inside closeAllConnections, writes the close frame to the
\* transport of c.
HubWrites(c) ==
  /\ hubPc = "loop" /\ hubPc' = "exited"
  /\ conn'[c].wire = Append(conn[c].wire, GoingAway)

\* C31: Single transport writer for WebSocket.  While the write pump of a connection
\* is inside a write to the transport, no other task writes to that transport: the
\* close frame of closeAllConnections is never written during a write of the pump.
C31_SingleTransportWriter ==
  [][\A c \in Conns : pump[c] = "writing" => ~HubWrites(c)]_vars


\* The dispatch loop is not inside the processing of an event.
BetweenEvents == hubPc \in {"idle", "loop", "exited"}

\* C32: Registry and identifier index agree.  Whenever the dispatch loop is not in
\* the middle of an event, the identifiers in the index are the identifiers of the
\* registered connections, and every entry of the index maps to the registered
\* connection that carries the identifier.
C32_RegistryIndexAgree ==
  (Alive /\ BetweenEvents)
    => /\ DOMAIN connIndex = {conn[c].id : c \in connections}
       /\ \A i \in DOMAIN connIndex :
            connIndex[i] \in connections /\ conn[connIndex[i]].id = i


\* C33: Room index is clean after shutdown.  When the done channel is closed, no room
\* holds the identifier of a connection that closeAllConnections / closeAllClients
\* has just closed and taken out of the registry.
C33_RoomsCleanAfterShutdown ==
  [][(Alive' /\ ~done /\ done')
       => \A c \in connections, r \in DOMAIN rooms' : conn[c].id \notin rooms'[r]]_vars


\* The dispatch loop has received the registration of c at some time.
EverRegistered(c) == pc[c] \in {"serve", "unregister", "unregistering", "done"}

Pos(q, m) == IF m \in Range(q) THEN CHOOSE i \in 1..Len(q) : q[i] = m ELSE 0

Built == {c \in Conns : conn[c].id # 0}

\* The orders in which a range may visit any part of the constructed connections.
Visits == UNION {Orders(S) : S \in SUBSET Built}

\* The events the dispatch loop processes, as the lock operations they make.
LoopScripts ==
  {registerLocks}
  \cup {unregisterLocks(kind, c) : c \in Built}
  \cup {broadcastLocks(kind, o) : o \in Visits}
  \cup {closeAllLocks(kind, o) : o \in Visits}

\* The calls of the other tasks: BroadcastToRoom, JoinRoom / LeaveRoom, RoomCount,
\* ConnectionCount / ClientCount, Send and Close on a connection.
CallerScripts ==
  {roomBroadcastLocks(kind, o) : o \in Visits}
  \cup {roomWriteLocks, roomCountLocks, connectionCountLocks}
  \cup {SendLocks(kind, c) : c \in Built}
  \cup {CloseLocks(c) : c \in Built}

Holds(t, m, c) == \E mode \in {"r", "w"} : <<m, c, mode>> \in lk.held[t]

\* connMu / clientMu and BaseHub.mu are sync.RWMutex, closeMu is a sync.Mutex.
IsRW(m) == m \in {"connMu", "mu"}

\* Task t is the writer of the lock: it has called Lock and waits for the readers
\* to leave, or it holds the lock.
Writer(t, m, c) ==
  \/ <<m, c, "w">> \in lk.held[t]
  \/ lk.script[t] # <<>> /\ Head(lk.script[t]) = Op("Acquire", m, c)

\* The next lock operation of task t can be made.  Lock on a sync.RWMutex first
\* waits for the writer before it, then for the readers; RLock with a writer there
\* queues up behind it ("RWait") and is let in by that writer's Unlock.
CanStep(t) ==
  /\ lk.script[t] # <<>>
  /\ LET h == Head(lk.script[t])
     IN CASE h.op = "Lock" -> IsRW(h.m) => \A u \in Tasks : ~Writer(u, h.m, h.c)
          [] h.op = "Acquire" -> \A u \in Tasks : ~Holds(u, h.m, h.c)
          [] h.op = "RWait" -> FALSE
          [] h.op = "Write" -> ~BlocksWrite(kind, conn[h.c], peer[h.c])
          [] OTHER -> TRUE

\* The dispatch loop receives an event and starts to process it.
LoopCall ==
  /\ Alive /\ lk.script[0] = <<>>
  /\ \E s \in LoopScripts : lk' = [lk EXCEPT !.script[0] = s]
  /\ UNCHANGED <<kind, now, conn, peer, pc, pump, connections, connIndex, rooms,
                 running, shutdown, done, hubPc, broadcast, closeAsync, unregAsync,
                 sd, ret, nextMsg, drv, joined, todo, panic>>

\* A caller starts a call.
Call(t) ==
  /\ Alive /\ t # 0 /\ lk.script[t] = <<>>
  /\ \E s \in CallerScripts : lk' = [lk EXCEPT !.script[t] = s]
  /\ UNCHANGED <<kind, now, conn, peer, pc, pump, connections, connIndex, rooms,
                 running, shutdown, done, hubPc, broadcast, closeAsync, unregAsync,
                 sd, ret, nextMsg, drv, joined, todo, panic>>

\* Task t makes its next lock operation.  Unlock on a sync.RWMutex lets in the
\* readers that queued up behind the writer.
LockStep(t) ==
  /\ Alive /\ CanStep(t)
  /\ LET h == Head(lk.script[t])
         rest == Tail(lk.script[t])
         queued == {u \in Tasks : /\ lk.script[u] # <<>>
                                  /\ Head(lk.script[u]) = Op("RWait", h.m, h.c)}
     IN lk' = CASE h.op = "Lock" ->
                     [lk EXCEPT !.script[t] = <<Op("Acquire", h.m, h.c)>> \o rest]
                [] h.op = "Acquire" ->
                     [lk EXCEPT !.script[t] = rest, !.held[t] = @ \cup {<<h.m, h.c, "w">>}]
                [] h.op = "RLock" ->
                     IF \E u \in Tasks : Writer(u, h.m, h.c)
                     THEN [lk EXCEPT !.script[t] = <<Op("RWait", h.m, h.c)>> \o rest]
                     ELSE [lk EXCEPT !.script[t] = rest,
                                     !.held[t] = @ \cup {<<h.m, h.c, "r">>}]
                [] h.op = "Unlock" ->
                     [script |-> [u \in Tasks |->
                                    IF u = t THEN rest
                                    ELSE IF u \in queued THEN Tail(lk.script[u])
                                    ELSE lk.script[u]],
                      held |-> [u \in Tasks |->
                                  IF u = t THEN lk.held[t] \ {<<h.m, h.c, "w">>}
                                  ELSE IF u \in queued
                                       THEN lk.held[u] \cup {<<h.m, h.c, "r">>}
                                  ELSE lk.held[u]]]
                [] h.op = "RUnlock" ->
                     [lk EXCEPT !.script[t] = rest, !.held[t] = @ \ {<<h.m, h.c, "r">>}]
                [] OTHER -> [lk EXCEPT !.script[t] = rest]
  /\ UNCHANGED <<kind, now, conn, peer, pc, pump, connections, connIndex, rooms,
                 running, shutdown, done, hubPc, broadcast, closeAsync, unregAsync,
                 sd, ret, nextMsg, drv, joined, todo, panic>>

\* Remote ends stop responding while the dispatch loop and the callers go through
\* the lock-protected paths.
NextOrder ==
  \/ \E c \in Conns : PeerStall(c)
  \/ LoopCall
  \/ \E t \in Tasks : Call(t)
  \/ \E t \in Tasks : LockStep(t)

\* The hub in service: the connections were accepted one after the other, the
\* dispatch loop runs and has registered them.
InitOrder ==
  /\ kind \in {"ws", "sse"}
  /\ now = NumConns
  /\ conn = [c \in Conns |-> NewConn(generateConnID(c))]
  /\ peer = [c \in Conns |-> "up"]
  /\ pc = [c \in Conns |-> "serve"]
  /\ pump = [c \in Conns |-> IF kind = "ws" THEN "run" ELSE "off"]
  /\ connections = Conns
  /\ connIndex = [i \in {conn[c].id : c \in Conns} |-> i]
  /\ rooms = EmptyMap
  /\ running = TRUE
  /\ shutdown = FALSE
  /\ done = FALSE
  /\ hubPc = "loop"
  /\ broadcast = <<>>
  /\ closeAsync = {}
  /\ unregAsync = {}
  /\ sd = [k \in Callers |-> "idle"]
  /\ ret = "none"
  /\ nextMsg = NumMsgs
  /\ drv = "off"
  /\ joined = {}
  /\ todo = <<>>
  /\ lk = NoLocks
  /\ panic = "none"

SpecOrder == InitOrder /\ [][NextOrder]_vars

\* A task that can make its next lock operation again and again makes it: runnable
\* goroutines run, and sync.Mutex and sync.RWMutex hand a lock to a waiter that has
\* been passed over (starvation mode), so no waiter is overtaken for ever.
FairOrder == SpecOrder /\ \A t \in Tasks : SF_vars(LockStep(t))


\* Task t waits for task u: for a lock that u holds, or behind u as the writer of
\* the lock.
WaitsFor(t, u) ==
  /\ t # u /\ lk.script[t] # <<>>
  /\ LET h == Head(lk.script[t])
     IN \/ h.op = "Acquire" /\ Holds(u, h.m, h.c)
        \/ h.op \in {"Lock", "RWait"} /\ IsRW(h.m) /\ Writer(u, h.m, h.c)

\* The tasks that t waits for, directly or through others, in at most n steps.
RECURSIVE WaitChain(_, _)
WaitChain(t, n) ==
  IF n = 0 THEN {}
  ELSE LET W == WaitChain(t, n - 1)
       IN W \cup {u \in Tasks : WaitsFor(t, u) \/ \E v \in W : WaitsFor(v, u)}

NoLockCycle == \A t \in Tasks : t \notin WaitChain(t, NumCallers + 1)

\* C36: Deadlock freedom of the lock-protected paths.  The registry lock, the room
\* lock and the close locks are never waited for in a cycle, and every call that has
\* started on a lock-protected path returns.
C36_DeadlockFreedom ==
  /\ []NoLockCycle
  /\ \A t \in Tasks : (lk.script[t] # <<>>) ~> (lk.script[t] = <<>>)


\* C37: SSE disconnect is notified exactly once.  The body of SSEWriter.Close, which
\* emits EventSSEDisconnect, runs in the step that takes the writer from open to
\* closed and in no other: a writer is notified as disconnected once, by the first
\* Close, whichever tasks call Close on it and however often.
C37_SSEDisconnectOnce ==
  /\ [][(kind = "sse" /\ Alive')
          => \A c \in Conns :
               conn'[c].id = conn[c].id
                 => conn'[c].closes =
                      conn[c].closes + (IF ~conn[c].closed /\ conn'[c].closed THEN 1 ELSE 0)]_vars
  /\ [](kind = "sse" => \A c \in Conns : conn[c].closes = (IF conn[c].closed THEN 1 ELSE 0))

\* An SSE client whose remote end is still there was closed by the application, a
\* delivery to it failed, and unregisterClient has called Close on it once more.
C37_Witness ==
  \E c \in Conns :
    /\ kind = "sse" /\ peer[c] = "up" /\ pc[c] = "serve"
    /\ conn[c].closed /\ conn[c].closes = 1
    /\ c \notin connections /\ c \notin unregAsync


\* Connection d is a member of the room: the room index holds its identifier.
InRoom(rm, d, r) == r \in DOMAIN rm /\ conn[d].id \in rm[r]

\* The identifier index leads to connection d.
Indexed(idx, d) == conn[d].id \in DOMAIN idx /\ idx[conn[d].id] = d

\* The dispatch loop processes an unregistration of c, submitted by its handler or by
\* the goroutine of a failed delivery.
UnregisterOf(c) ==
  /\ hubPc = "loop" /\ hubPc' = "loop"
  /\ \/ pc[c] = "unregister" /\ pc'[c] = "done"
     \/ c \in unregAsync /\ c \notin unregAsync'

\* C38: Unregister is idempotent and local.  Processing unregister(c) for a
\* connection that is not registered (any more) leaves the registry, the identifier
\* index and the rooms as they are, and processing unregister(c) leaves every other
\* connection registered or not, indexed or not and in the rooms it was in.
C38_UnregisterLocal ==
  [][\A c \in Conns :
       (Alive' /\ UnregisterOf(c))
         => /\ c \notin connections
                 => connections' = connections /\ connIndex' = connIndex /\ rooms' = rooms
            /\ \A d \in Conns \ {c} :
                 /\ d \in connections' <=> d \in connections
                 /\ Indexed(connIndex', d) <=> Indexed(connIndex, d)
                 /\ \A r \in Rooms : InRoom(rooms', d, r) <=> InRoom(rooms, d, r)]_vars

====
